---- MODULE Spec2Model ----
(***************************************************************************)
(* dev-helper: the command-safety gate.                                    *)
(*                                                                         *)
(* utils/safety.js classifies a command string against a deny list and an *)
(* allow list of regular expressions; utils/runner.js spawns a process    *)
(* only for a command the classifier approved.  The regular expressions   *)
(* are modelled by a small matcher over character strings, the rule       *)
(* tables are transcribed pattern by pattern.                             *)
(***************************************************************************)
EXTENDS Integers, Sequences, FiniteSets, TLC

(***************************************************************************)
(* Characters and character classes of the regular expressions.           *)
(***************************************************************************)
Ch(s, j) == SubSeq(s, j, j)

Chars(s) == {Ch(s, j) : j \in 1..Len(s)}

UpperAlphabet == "ABCDEFGHIJKLMNOPQRSTUVWXYZ"

LowerAlphabet == "abcdefghijklmnopqrstuvwxyz"

UpperLetters == Chars(UpperAlphabet)

LowerLetters == Chars(LowerAlphabet)

Digits == Chars("0123456789")

\* Canonicalize of a case-insensitive match, on ASCII.
LowerOf ==
  [c \in UpperLetters |->
     Ch(LowerAlphabet, CHOOSE j \in 1..Len(UpperAlphabet) : Ch(UpperAlphabet, j) = c)]

Fold(c, ignoreCase) == IF ignoreCase /\ c \in UpperLetters THEN LowerOf[c] ELSE c

\* \s (and the characters String.prototype.trim strips)
WhiteSpace == {" ", "\t", "\n", "\r", "\f"}

\* \w
WordChars == UpperLetters \cup LowerLetters \cup Digits \cup {"_"}

\* A class is a set of characters, or the complement of one.
SpaceClass == [neg |-> FALSE, set |-> WhiteSpace]

WordClass == [neg |-> FALSE, set |-> WordChars]

DigitClass == [neg |-> FALSE, set |-> Digits]

WordDotClass == [neg |-> FALSE, set |-> WordChars \cup {"."}]

NotQuoteClass == [neg |-> TRUE, set |-> {"\""}]

ChainClass == [neg |-> FALSE, set |-> {";", "&", "|"}]

\* The grave accent (U+0060) cannot be written inside a TLA+ string: "~" stands
\* for it in every command string and pattern, and the tilde itself is not
\* part of the alphabet of the commands.
Backtick == "~"

InClass(c, class) == (c \in class.set) # class.neg

(***************************************************************************)
(* The terms of a pattern.                                                 *)
(***************************************************************************)
Bol == [k |-> "bol"]

Eol == [k |-> "eol"]

Wb == [k |-> "wb"]

Lit(str) == [k |-> "alt", alts |-> <<str>>]

Alt(strs) == [k |-> "alt", alts |-> strs]

One(class) == [k |-> "one", class |-> class]

Plus(class) == [k |-> "plus", class |-> class]

Star(class) == [k |-> "star", class |-> class]

\* A lookahead that was left out: the term matches everywhere.
NoLookahead(strs) == [k |-> "opt", terms |-> <<>>]

NotAhead(strs) == [k |-> "notahead", alts |-> strs]

NotBehind(strs) == [k |-> "notbehind", alts |-> strs]

Opt(terms) == [k |-> "opt", terms |-> terms]

Ws == Plus(SpaceClass)

OptErr == Opt(<<Ws, Lit("2>&1")>>)

\* A pattern literal that carries the g flag besides.
RxGlobal(terms, ignoreCase) == [terms |-> terms, i |-> ignoreCase, g |-> TRUE]

\* a pattern literal /.../ or /.../i: no pattern of the program has the g or y flag
Rx(terms, ignoreCase) == [terms |-> terms, i |-> ignoreCase, g |-> FALSE]

(***************************************************************************)
(* Matching.  A position p is the index of the next character to read,    *)
(* 1..Len(s)+1.  A term maps a position to the set of positions at which  *)
(* a match of the term that starts there can end; backtracking is the     *)
(* union over these sets.                                                  *)
(***************************************************************************)
LitAt(str, s, p, ic) ==
  /\ p + Len(str) - 1 <= Len(s)
  /\ \A j \in 1..Len(str) : Fold(Ch(s, p + j - 1), ic) = Fold(Ch(str, j), ic)

IsWordAt(s, p) == p >= 1 /\ p <= Len(s) /\ Ch(s, p) \in WordChars

RunEnds(class, s, p) ==
  {q \in p..(Len(s) + 1) : \A j \in p..(q - 1) : InClass(Ch(s, j), class)}

RECURSIVE MatchTerms(_, _, _, _, _)
MatchTerm(t, s, p, ic) ==
  CASE t.k = "bol" -> IF p = 1 THEN {p} ELSE {}
    [] t.k = "eol" -> IF p = Len(s) + 1 THEN {p} ELSE {}
    [] t.k = "wb" -> IF IsWordAt(s, p - 1) # IsWordAt(s, p) THEN {p} ELSE {}
    [] t.k = "alt" ->
         {p + Len(t.alts[a]) : a \in {b \in DOMAIN t.alts : LitAt(t.alts[b], s, p, ic)}}
    [] t.k = "one" ->
         IF p <= Len(s) /\ InClass(Ch(s, p), t.class) THEN {p + 1} ELSE {}
    [] t.k = "plus" -> RunEnds(t.class, s, p) \ {p}
    [] t.k = "star" -> RunEnds(t.class, s, p)
    [] t.k = "notahead" ->
         IF \E a \in DOMAIN t.alts : LitAt(t.alts[a], s, p, ic) THEN {} ELSE {p}
    [] t.k = "notbehind" ->
         IF \E a \in DOMAIN t.alts :
              /\ p - Len(t.alts[a]) >= 1
              /\ LitAt(t.alts[a], s, p - Len(t.alts[a]), ic)
         THEN {} ELSE {p}
    [] t.k = "opt" -> {p} \cup MatchTerms(t.terms, 1, s, {p}, ic)

MatchTerms(terms, n, s, P, ic) ==
  IF P = {} \/ n > Len(terms)
  THEN P
  ELSE MatchTerms(terms, n + 1, s,
                  UNION {MatchTerm(terms[n], s, p, ic) : p \in P}, ic)

\* The rest of the pattern, from its n-th term on, matches at position p.
RECURSIVE MatchFrom(_, _, _, _, _)
MatchFrom(terms, n, s, p, ic) ==
  \/ n > Len(terms)
  \/ \E q \in MatchTerm(terms[n], s, p, ic) : MatchFrom(terms, n + 1, s, q, ic)

\* The positions at which a match can start: a pattern that begins with ^
\* matches at the first position or nowhere.
Starts(rx, s) == IF rx.terms[1].k = "bol" THEN {1} ELSE 1..(Len(s) + 1)

\* RegExp.prototype.test: the pattern matches somewhere in s
RegExpTest(rx, s) == \E p \in Starts(rx, s) : MatchFrom(rx.terms, 1, s, p, rx.i)

\* test as it depends on the pattern object's lastIndex li: a pattern with the
\* g flag is matched from index li on, any other from the start of s
RegExpTestAt(rx, s, li) ==
  IF rx.g
  THEN \E p \in Starts(rx, s) : p > li /\ MatchFrom(rx.terms, 1, s, p, rx.i)
  ELSE RegExpTest(rx, s)

\* lastIndex after test: left alone without the g flag; with it, the end of
\* the match (the longest one at the leftmost start) or 0 after a failure
LastIndexAfter(rx, s, li) ==
  IF ~rx.g THEN li
  ELSE IF ~RegExpTestAt(rx, s, li) THEN 0
  ELSE LET from == {p \in Starts(rx, s) : p > li /\ MatchFrom(rx.terms, 1, s, p, rx.i)}
           start == CHOOSE p \in from : \A q \in from : p <= q
           ends == MatchTerms(rx.terms, 1, s, {start}, rx.i)
       IN  (CHOOSE e \in ends : \A f \in ends : e >= f) - 1

SAFE_COMMAND_PATTERNS ==
  <<
     Rx(<<Bol, Lit("git"), Ws, Lit("--version"), Eol>>, TRUE),
     Rx(<<Bol, Lit("node"), Ws, Lit("--version"), Eol>>, TRUE),
     Rx(<<Bol, Lit("node"), Ws, Lit("-v"), Eol>>, TRUE),
     Rx(<<Bol, Lit("npm"), Ws, Lit("--version"), Eol>>, TRUE),
     Rx(<<Bol, Lit("npm"), Ws, Lit("-v"), Eol>>, TRUE),
     Rx(<<Bol, Lit("python"), Ws, Lit("--version"), Eol>>, TRUE),
     Rx(<<Bol, Lit("python"), Ws, Lit("-V"), Eol>>, TRUE),
     Rx(<<Bol, Lit("python3"), Ws, Lit("--version"), Eol>>, TRUE),
     Rx(<<Bol, Lit("python3"), Ws, Lit("-V"), Eol>>, TRUE),
     Rx(<<Bol, Lit("java"), Ws, Lit("--version"), Eol>>, TRUE),
     Rx(<<Bol, Lit("java"), Ws, Lit("-version"), Eol>>, TRUE),
     Rx(<<Bol, Lit("java"), Ws, Lit("-version"), Ws, Lit("2>&1"), Eol>>, TRUE),
     Rx(<<Bol, Lit("javac"), Ws, Lit("--version"), Eol>>, TRUE),
     Rx(<<Bol, Lit("javac"), Ws, Lit("-version"), Eol>>, TRUE),
     Rx(<<Bol, Lit("go"), Ws, Lit("version"), Eol>>, TRUE),
     Rx(<<Bol, Lit("rustc"), Ws, Lit("--version"), Eol>>, TRUE),
     Rx(<<Bol, Lit("cargo"), Ws, Lit("--version"), Eol>>, TRUE),
     Rx(<<Bol, Lit("dotnet"), Ws, Lit("--version"), Eol>>, TRUE),
     Rx(<<Bol, Lit("php"), Ws, Lit("--version"), Eol>>, TRUE),
     Rx(<<Bol, Lit("php"), Ws, Lit("-v"), Eol>>, TRUE),
     Rx(<<Bol, Lit("composer"), Ws, Lit("--version"), Eol>>, TRUE),
     Rx(<<Bol, Lit("flutter"), Ws, Lit("--version"), Eol>>, TRUE),
     Rx(<<Bol, Lit("dart"), Ws, Lit("--version"), Eol>>, TRUE),
     Rx(<<Bol, Lit("docker"), Ws, Lit("--version"), Eol>>, TRUE),
     Rx(<<Bol, Lit("docker"), Ws, Lit("-v"), Eol>>, TRUE),
     Rx(<<Bol, Lit("docker"), Ws, Lit("version"), Eol>>, TRUE),
     Rx(<<Bol, Lit("mvn"), Ws, Lit("--version"), Eol>>, TRUE),
     Rx(<<Bol, Lit("mvn"), Ws, Lit("-v"), Eol>>, TRUE),
     Rx(<<Bol, Lit("gradle"), Ws, Lit("--version"), Eol>>, TRUE),
     Rx(<<Bol, Lit("gradle"), Ws, Lit("-v"), Eol>>, TRUE),
     Rx(<<Bol, Lit("cmake"), Ws, Lit("--version"), Eol>>, TRUE),
     Rx(<<Bol, Lit("make"), Ws, Lit("--version"), Eol>>, TRUE),
     Rx(<<Bol, Lit("gcc"), Ws, Lit("--version"), Eol>>, TRUE),
     Rx(<<Bol, Lit("g++"), Ws, Lit("--version"), Eol>>, TRUE),
     Rx(<<Bol, Lit("clang"), Ws, Lit("--version"), Eol>>, TRUE),
     Rx(<<Bol, Lit("pip"), Ws, Lit("--version"), Eol>>, TRUE),
     Rx(<<Bol, Lit("pip3"), Ws, Lit("--version"), Eol>>, TRUE),
     Rx(<<Bol, Lit("poetry"), Ws, Lit("--version"), Eol>>, TRUE),
     Rx(<<Bol, Lit("pipenv"), Ws, Lit("--version"), Eol>>, TRUE),
     Rx(<<Bol, Lit("yarn"), Ws, Lit("--version"), Eol>>, TRUE),
     Rx(<<Bol, Lit("pnpm"), Ws, Lit("--version"), Eol>>, TRUE),
     Rx(<<Bol, Lit("bun"), Ws, Lit("--version"), Eol>>, TRUE),
     Rx(<<Bol, Lit("where"), Ws, Plus(WordClass), Eol>>, TRUE),
     Rx(<<Bol, Lit("which"), Ws, Plus(WordClass), Eol>>, TRUE),
     Rx(<<Bol, Lit("command"), Ws, Lit("-v"), Ws, Plus(WordClass), Eol>>, TRUE),
     Rx(<<Bol, Lit("git"), Ws, Lit("config"), Ws, Lit("--global"), Ws, Lit("user.name"), Eol>>, TRUE),
     Rx(<<Bol, Lit("git"), Ws, Lit("config"), Ws, Lit("--global"), Ws, Lit("user.email"), Eol>>, TRUE),
     Rx(<<Bol, Lit("git"), Ws, Lit("config"), Ws, Lit("--global"), Ws, Lit("init.defaultBranch"), Eol>>, TRUE),
     Rx(<<Bol, Lit("git"), Ws, Lit("config"), Ws, Lit("--get"), Ws, Plus(WordDotClass), Eol>>, TRUE),
     Rx(<<Bol, Lit("git"), Ws, Lit("status"), Eol>>, TRUE),
     Rx(<<Bol, Lit("git"), Ws, Lit("status"), Ws, Lit("--porcelain"), OptErr, Eol>>, TRUE),
     Rx(<<Bol, Lit("git"), Ws, Lit("rev-parse"), Ws, Lit("--git-dir"), Eol>>, TRUE),
     Rx(<<Bol, Lit("git"), Ws, Lit("rev-parse"), Ws, Lit("--is-inside-work-tree"), OptErr, Eol>>, TRUE),
     Rx(<<Bol, Lit("git"), Ws, Lit("branch"), Ws, Lit("--show-current"), OptErr, Eol>>, TRUE),
     Rx(<<Bol, Lit("git"), Ws, Lit("symbolic-ref"), Ws, Lit("HEAD"), OptErr, Eol>>, TRUE),
     Rx(<<Bol, Lit("git"), Ws, Lit("diff"), Ws, Lit("--cached"), Ws, Lit("--quiet"), OptErr, Eol>>, TRUE),
     Rx(<<Bol, Lit("git"), Ws, Lit("ls-files"), Ws, Lit("--others"), Ws, Lit("--exclude-standard"), OptErr, Eol>>, TRUE),
     Rx(<<Bol, Lit("git"), Ws, Lit("ls-files"), Ws, Lit("-u"), OptErr, Eol>>, TRUE),
     Rx(<<Bol, Lit("git"), Ws, Lit("remote"), OptErr, Eol>>, TRUE),
     Rx(<<Bol, Lit("git"), Ws, Lit("log"), Ws, Lit("-1"), Ws, Lit("--format=\""), Star(NotQuoteClass), Lit("\""), OptErr, Eol>>, TRUE),
     Rx(<<Bol, Lit("git"), Ws, Lit("rev-list"), Ws, Lit("--left-right"), Ws, Lit("--count"), Ws, Lit("HEAD...@{upstream}"), OptErr, Eol>>, TRUE),
     Rx(<<Bol, Lit("git"), Ws, Lit("diff"), Ws, Lit("--name-only"), Ws, Lit("--diff-filter=U"), OptErr, Eol>>, TRUE),
     Rx(<<Bol, Lit("git"), Ws, Lit("stash"), Ws, Lit("list"), OptErr, Eol>>, TRUE),
     Rx(<<Bol, Lit("git"), Ws, Lit("reflog"), Ws, Lit("-"), Plus(DigitClass), Ws, Lit("--format=\""), Star(NotQuoteClass), Lit("\""), OptErr, Eol>>, TRUE),
     Rx(<<Bol, Lit("docker"), Ws, Lit("info"), Eol>>, TRUE),
     Rx(<<Bol, Lit("docker"), Ws, Lit("ps"), Eol>>, TRUE)
  >>

DANGEROUS_COMMAND_PATTERNS ==
  <<
     Rx(<<Wb, Lit("node"), Ws, NotAhead(<<"-v", "--version">>)>>, TRUE),
     Rx(<<Wb, Lit("npm"), Ws, Alt(<<"start", "run", "exec", "test">>)>>, TRUE),
     Rx(<<Wb, Lit("npm"), Ws, Lit("install")>>, TRUE),
     Rx(<<Wb, Lit("npx"), Wb>>, TRUE),
     Rx(<<Wb, Lit("yarn"), Ws, Alt(<<"start", "run", "dev", "build">>)>>, TRUE),
     Rx(<<Wb, Lit("yarn"), Ws, Lit("install")>>, TRUE),
     Rx(<<Wb, Lit("pnpm"), Ws, Alt(<<"start", "run", "dev", "build">>)>>, TRUE),
     Rx(<<Wb, Lit("bun"), Ws, Alt(<<"run", "start", "dev">>)>>, TRUE),
     Rx(<<Wb, Lit("python"), Opt(<<Lit("3")>>), Ws, NotAhead(<<"-V", "--version">>)>>, TRUE),
     Rx(<<Wb, Lit("pip"), Opt(<<Lit("3")>>), Ws, Lit("install")>>, TRUE),
     Rx(<<Wb, Lit("poetry"), Ws, Alt(<<"install", "run">>)>>, TRUE),
     Rx(<<Wb, Lit("pipenv"), Ws, Alt(<<"install", "run">>)>>, TRUE),
     Rx(<<Wb, Lit("conda"), Ws, Alt(<<"install", "run", "activate">>)>>, TRUE),
     Rx(<<Wb, Lit("java"), Ws, NotAhead(<<"-version", "--version">>)>>, TRUE),
     Rx(<<Wb, Lit("mvn"), Ws, Alt(<<"compile", "install", "exec", "spring-boot:run", "package", "test">>)>>, TRUE),
     Rx(<<Wb, Lit("gradle"), Ws, Alt(<<"run", "bootRun", "build", "assemble">>)>>, TRUE),
     Rx(<<Wb, Lit("./gradlew"), One(SpaceClass)>>, TRUE),
     Rx(<<Wb, Lit("go"), Ws, Alt(<<"run", "build", "test">>)>>, TRUE),
     Rx(<<Wb, Lit("cargo"), Ws, Alt(<<"run", "build", "test">>)>>, TRUE),
     Rx(<<Wb, Lit("dotnet"), Ws, Alt(<<"run", "build", "test">>)>>, TRUE),
     Rx(<<Wb, Lit("php"), Ws, NotAhead(<<"-v", "--version">>)>>, TRUE),
     Rx(<<Wb, Lit("flutter"), Ws, Alt(<<"run", "build">>)>>, TRUE),
     Rx(<<Wb, Lit("dart"), Ws, Lit("run")>>, TRUE),
     Rx(<<Wb, Lit("docker"), Ws, Alt(<<"run", "start", "compose", "build", "exec">>)>>, TRUE),
     Rx(<<Wb, Lit("docker-compose"), Wb>>, TRUE),
     Rx(<<Wb, Lit("rm"), One(SpaceClass)>>, TRUE),
     Rx(<<Wb, Lit("mkdir"), One(SpaceClass)>>, TRUE),
     Rx(<<Wb, Lit("touch"), One(SpaceClass)>>, TRUE),
     Rx(<<Wb, Lit("cp"), One(SpaceClass)>>, TRUE),
     Rx(<<Wb, Lit("mv"), One(SpaceClass)>>, TRUE),
     Rx(<<Wb, Lit("curl"), One(SpaceClass)>>, TRUE),
     Rx(<<Wb, Lit("wget"), One(SpaceClass)>>, TRUE),
     Rx(<<Wb, Lit("sudo"), Wb>>, TRUE),
     Rx(<<Wb, Lit("sh"), Ws, Lit("-c")>>, TRUE),
     Rx(<<Wb, Lit("bash"), Ws, Lit("-c")>>, TRUE),
     Rx(<<Wb, Lit("powershell")>>, TRUE),
     Rx(<<Wb, Lit("cmd"), Ws, Lit("/c")>>, TRUE),
     Rx(<<One(ChainClass), NotAhead(<<"1">>)>>, FALSE),
     Rx(<<Lit("$(")>>, FALSE),
     Rx(<<Lit(Backtick)>>, FALSE),
     Rx(<<NotBehind(<<"2">>), Lit(">"), NotAhead(<<"&">>)>>, FALSE),
     Rx(<<Lit("<"), NotAhead(<<"&">>)>>, FALSE)
  >>

(***************************************************************************)
(* JavaScript values handed to the classifier: strings, and the values    *)
(* that are no strings.                                                    *)
(***************************************************************************)
JSString(s) == [type |-> "string", val |-> s]

JSNull == [type |-> "null", val |-> ""]

JSUndefined == [type |-> "undefined", val |-> ""]

JSNumber(digits) == [type |-> "number", val |-> digits]

\* !command
Falsy(v) ==
  \/ v.type \in {"null", "undefined"}
  \/ v.type = "string" /\ v.val = ""
  \/ v.type = "number" /\ v.val = "0"
  \/ v.type = "boolean" /\ v.val = "false"

\* String.prototype.trim
RECURSIVE TrimStart(_)
TrimStart(s) ==
  IF Len(s) > 0 /\ Ch(s, 1) \in WhiteSpace THEN TrimStart(SubSeq(s, 2, Len(s))) ELSE s

RECURSIVE TrimEnd(_)
TrimEnd(s) ==
  IF Len(s) > 0 /\ Ch(s, Len(s)) \in WhiteSpace
  THEN TrimEnd(SubSeq(s, 1, Len(s) - 1))
  ELSE s

Trim(s) == TrimEnd(TrimStart(s))

\* some pattern of the table matches s
MatchesAny(patterns, s) == \E n \in DOMAIN patterns : RegExpTest(patterns[n], s)

ReasonInvalid == "Invalid command: empty or not a string"

ReasonDangerous ==
  "BLOCKED: Command matches dangerous pattern. dev-helper is read-only and cannot execute project code."

ReasonAllowed == "Command is on the safe allowlist"

ReasonNotListed ==
  "BLOCKED: Command not on allowlist. dev-helper only executes read-only version and config checks."

\* RegExp.prototype.lastIndex of every pattern object of the two tables, the
\* only part of a rule table that a test call can change
VARIABLE lastIndex

\* A guard that tests for emptiness only: typeof is not consulted.
InvalidCommandNoTypeCheck(command) == Falsy(command)

\* !command || typeof command !== 'string'
InvalidCommand(command) == Falsy(command) \/ command.type # "string"

\* command.trim() is reached with a value that is no string: a TypeError
IsCommandSafeThrows(command) == ~InvalidCommand(command) /\ command.type # "string"

\* for (const pattern of patterns) if (pattern.test(s)) return ...: the index
\* of the first pattern, from the n-th on, whose test succeeds, 0 when none does
RECURSIVE FirstMatch(_, _, _, _)
FirstMatch(patterns, li, s, n) ==
  IF n > Len(patterns) THEN 0
  ELSE IF RegExpTestAt(patterns[n], s, li[n]) THEN n
  ELSE FirstMatch(patterns, li, s, n + 1)

\* the lastIndex values of a table after one pass of the loop over it
TableAfter(patterns, li, s) ==
  LET hit == FirstMatch(patterns, li, s, 1)
      tested == IF hit = 0 THEN Len(patterns) ELSE hit
  IN  [n \in DOMAIN patterns |->
         IF patterns[n].g /\ n <= tested THEN LastIndexAfter(patterns[n], s, li[n])
         ELSE li[n]]

\* the number of pattern.test calls isCommandSafe makes for the command: none
\* before the guard, then each loop up to its first match
PatternTests(command) ==
  IF InvalidCommand(command) THEN 0
  ELSE LET normalizedCmd == Trim(command.val)
           denied == FirstMatch(DANGEROUS_COMMAND_PATTERNS, lastIndex.deny, normalizedCmd, 1)
           allowed == FirstMatch(SAFE_COMMAND_PATTERNS, lastIndex.allow, normalizedCmd, 1)
       IN  IF denied # 0 THEN denied
           ELSE Len(DANGEROUS_COMMAND_PATTERNS)
                  + (IF allowed # 0 THEN allowed ELSE Len(SAFE_COMMAND_PATTERNS))

\* the same number, from the verdict isCommandSafe(command) has returned: a
\* verdict other than dangerous means the deny loop ran to its end, an allowed one
\* that the allow loop stopped at its first match
PatternTestsOf(command, check) ==
  IF check.reason = ReasonInvalid THEN 0
  ELSE IF check.reason = ReasonDangerous
  THEN FirstMatch(DANGEROUS_COMMAND_PATTERNS, lastIndex.deny, Trim(command.val), 1)
  ELSE Len(DANGEROUS_COMMAND_PATTERNS)
         + (IF check.safe
            THEN FirstMatch(SAFE_COMMAND_PATTERNS, lastIndex.allow, Trim(command.val), 1)
            ELSE Len(SAFE_COMMAND_PATTERNS))

\* the lastIndex values of the two tables after isCommandSafe(command)
LastIndexAfterCall(command) ==
  IF InvalidCommand(command) \/ command.type # "string" THEN lastIndex
  ELSE LET normalizedCmd == Trim(command.val)
           denied == FirstMatch(DANGEROUS_COMMAND_PATTERNS, lastIndex.deny, normalizedCmd, 1)
           allow == TableAfter(SAFE_COMMAND_PATTERNS, lastIndex.allow, normalizedCmd)
       IN  [deny |-> TableAfter(DANGEROUS_COMMAND_PATTERNS, lastIndex.deny, normalizedCmd),
            allow |-> [n \in DOMAIN SAFE_COMMAND_PATTERNS |->
                         IF SAFE_COMMAND_PATTERNS[n].g /\ denied = 0 THEN allow[n]
                         ELSE lastIndex.allow[n]]]

\* The two passes in the other order: the allow list decides first.
IsCommandSafeAllowFirst(command) ==
  IF Falsy(command) \/ command.type # "string"
  THEN [safe |-> FALSE, reason |-> ReasonInvalid]
  ELSE LET normalizedCmd == Trim(command.val)
       IN  IF MatchesAny(SAFE_COMMAND_PATTERNS, normalizedCmd)
           THEN [safe |-> TRUE, reason |-> ReasonAllowed]
           ELSE IF MatchesAny(DANGEROUS_COMMAND_PATTERNS, normalizedCmd)
                THEN [safe |-> FALSE, reason |-> ReasonDangerous]
                ELSE [safe |-> FALSE, reason |-> ReasonNotListed]

\* A block list only: what matches no deny pattern is let through.
IsCommandSafeDefaultAllow(command) ==
  IF Falsy(command) \/ command.type # "string"
  THEN [safe |-> FALSE, reason |-> ReasonInvalid]
  ELSE LET normalizedCmd == Trim(command.val)
       IN  IF MatchesAny(DANGEROUS_COMMAND_PATTERNS, normalizedCmd)
           THEN [safe |-> FALSE, reason |-> ReasonDangerous]
           ELSE [safe |-> TRUE, reason |-> ReasonAllowed]

IsCommandSafe(command) ==
  IF InvalidCommand(command)
  THEN [safe |-> FALSE, reason |-> ReasonInvalid]
  ELSE LET normalizedCmd == Trim(command.val)
       IN  IF FirstMatch(DANGEROUS_COMMAND_PATTERNS, lastIndex.deny, normalizedCmd, 1) # 0
           THEN [safe |-> FALSE, reason |-> ReasonDangerous]
           ELSE IF FirstMatch(SAFE_COMMAND_PATTERNS, lastIndex.allow, normalizedCmd, 1) # 0
                THEN [safe |-> TRUE, reason |-> ReasonAllowed]
                ELSE [safe |-> FALSE, reason |-> ReasonNotListed]

(***************************************************************************)
(* State.  One call of an entry point of utils/runner.js (or of a caller  *)
(* that spawns a process itself) is one step from "idle" to "returned";   *)
(* the caller then drops the result and the program is idle again.        *)
(***************************************************************************)
VARIABLES
  platform,    \* process.platform
  debug,       \* process.env.DEV_HELPER_DEBUG
  pc,          \* "idle", "returned"; "input", "classified" for a bare isCommandSafe call
  entry,       \* the function that was called
  cmd,         \* the command handed to the classifier or to the spawn primitive
  classified,  \* isCommandSafe was called during this call
  verdict,     \* what isCommandSafe returned
  spawned,     \* the commands handed to execSync during this call, in order
  result,      \* the result object of safeRunCommand / _executeCommand
  ret,         \* the value the entry point returned
  errlog,      \* the lines written with console.error during this call
  tests,       \* the number of pattern.test calls made during this call
  thrown,      \* the exception that escaped the call, "" when it returned
  history,     \* for each input, the verdicts isCommandSafe has returned for it so far
  args,        \* the arguments the entry point was called with
  outcome,     \* what the operating system answered to the spawn of this call
  spawnOptions, \* the options handed to execSync with each spawned command
  runner,      \* the utils/runner.js the commands are loaded with: "guarded" or "legacy"
  program,     \* the command of the command line that is running: "setup", "explain"
  site,        \* the statement of the command the run has reached
  inflight,    \* the child processes that were spawned and have not exited yet
  allIssues,   \* setup's allIssues
  allFixes,    \* setup's allFixes, explain's fixes
  detectedProjects, \* what detectAll returned so far
  printed,     \* the summary lines the run has printed
  cwd,         \* the working directory: its entries, and what git status prints in it
  runOptions   \* the options of the command line: explain's options

vars ==
  <<platform, debug, pc, entry, cmd, classified, verdict, spawned, result, ret, errlog,
    tests, thrown, history, lastIndex, args, outcome, spawnOptions,
    runner, program, site, inflight, allIssues, allFixes, detectedProjects, printed,
    cwd, runOptions>>

\* the state of a run of the command line
runVars ==
  <<runner, program, site, inflight, allIssues, allFixes, detectedProjects, printed,
    cwd, runOptions>>

Site(phase, i, k, sub, j) == [phase |-> phase, i |-> i, k |-> k, sub |-> sub, j |-> j]

\* no command of the command line is running: the entry points are called directly
NoRun ==
  /\ runner = "guarded"
  /\ program = "none"
  /\ site = Site("none", 0, 0, "", 0)
  /\ inflight = 0
  /\ allIssues = <<>>
  /\ allFixes = <<>>
  /\ detectedProjects = <<>>
  /\ printed = <<>>
  /\ cwd = [files |-> {}, status |-> ""]
  /\ runOptions = [verbose |-> FALSE]

\* the pattern objects as the module's load leaves them
InitialLastIndex ==
  [deny |-> [n \in DOMAIN DANGEROUS_COMMAND_PATTERNS |-> 0],
   allow |-> [n \in DOMAIN SAFE_COMMAND_PATTERNS |-> 0]]

Platforms == {"win32", "linux"}

JSBoolean(b) == [type |-> "boolean", val |-> IF b THEN "true" ELSE "false"]

JSObject == [type |-> "object", val |-> ""]

NoVerdict == [safe |-> FALSE, reason |-> ""]

NoResult == [success |-> FALSE, stdout |-> "", stderr |-> "", code |-> 0, blocked |-> "none"]

MaxCalls == 2

\* the values isCommandSafe is called with again and again: an allowed command,
\* a denied one, one on neither list, and a value that is no string
RepeatedInputs ==
  {JSString("git --version"), JSString("rm -rf /"), JSString("git push"), JSNull}

\* no call made yet
NoHistory == [c \in RepeatedInputs |-> <<>>]

\* the message of the TypeError of a trim call on a value that has no such method
TypeErrorTrim == "TypeError: command.trim is not a function"

\* the value a call hands back: nothing when an exception escaped it
Returned(v) == IF thrown' # "" THEN JSUndefined ELSE v

(***************************************************************************)
(* child_process.execSync as the program sees it: it returns the captured *)
(* standard output when the process exits with status 0 and throws an     *)
(* error object otherwise (non-zero status, timeout, spawn failure).      *)
(***************************************************************************)
MaxExit == 2

ExitStatuses == 0..MaxExit

Outputs == {"", " v1.2.3\n"}

ErrOutputs == {"", "fatal: not a git repository\n"}

\* status 0 in a thrown error stands for error.status === null / undefined; a
\* process killed at the timeout leaves what it had written until then, and a
\* status when it handled the signal and exited by itself
Outcomes ==
  {[kind |-> "exit", status |-> st, stdout |-> o, stderr |-> e, hasOutput |-> TRUE,
    message |-> IF st = 0 THEN "" ELSE "Command failed"] :
     st \in ExitStatuses, o \in Outputs, e \in ErrOutputs}
  \cup
  {[kind |-> "timeout", status |-> st, stdout |-> o, stderr |-> e, hasOutput |-> TRUE,
    message |-> "spawnSync /bin/sh ETIMEDOUT"] :
     st \in ExitStatuses, o \in Outputs, e \in ErrOutputs}
  \cup
  {[kind |-> "spawnError", status |-> 0, stdout |-> "", stderr |-> "", hasOutput |-> FALSE,
    message |-> "spawnSync /bin/sh ENOENT"]}

\* no process was spawned
NoOutcome ==
  [kind |-> "none", status |-> 0, stdout |-> "", stderr |-> "", hasOutput |-> FALSE,
   message |-> ""]

\* the options objects the callers of the runner pass: none, or { cwd: dir }
NoOptions == [field \in {} |-> ""]

CwdOptions == [cwd |-> "dir"]

CallerOptions == {NoOptions, CwdOptions}

DefaultTimeout == 10000

LegacyTimeout == 30000

\* the options the runCommand of the unguarded runner builds: timeout = 30000
LegacyExecSyncOptions(options) ==
  [timeout |-> IF "timeout" \in DOMAIN options THEN options.timeout ELSE LegacyTimeout,
   stdio |-> IF "silent" \in DOMAIN options /\ ~options.silent THEN "inherit" ELSE "pipe",
   cwd |-> IF "cwd" \in DOMAIN options THEN options.cwd ELSE "process.cwd()"]

\* const { cwd = process.cwd(), timeout = 10000, silent = true } = options, and
\* the options object _executeCommand builds for execSync from them
ExecSyncOptions(options) ==
  [timeout |-> IF "timeout" \in DOMAIN options THEN options.timeout ELSE DefaultTimeout,
   stdio |-> IF "silent" \in DOMAIN options /\ ~options.silent THEN "inherit" ELSE "pipe",
   cwd |-> IF "cwd" \in DOMAIN options THEN options.cwd ELSE "process.cwd()"]

\* A catch branch that reports error.status as it is, without the fallback to 1.
ExecuteCommandRawStatus(command, o) ==
  IF o.kind = "exit" /\ o.status = 0
  THEN [success |-> TRUE, stdout |-> Trim(o.stdout), stderr |-> "", code |-> 0,
        blocked |-> "undefined"]
  ELSE [success |-> FALSE,
        stdout |-> IF o.hasOutput /\ o.stdout # "" THEN Trim(o.stdout) ELSE "",
        stderr |-> IF o.hasOutput /\ o.stderr # "" THEN Trim(o.stderr) ELSE o.message,
        code |-> o.status,
        blocked |-> "undefined"]

\* _executeCommand: try { execSync } catch (error) { ... }
ExecuteCommand(command, o) ==
  IF o.kind = "exit" /\ o.status = 0
  THEN [success |-> TRUE, stdout |-> Trim(o.stdout), stderr |-> "", code |-> 0,
        blocked |-> "undefined"]
  ELSE [success |-> FALSE,
        stdout |-> IF o.hasOutput /\ o.stdout # "" THEN Trim(o.stdout) ELSE "",
        stderr |-> IF o.hasOutput /\ o.stderr # "" THEN Trim(o.stderr) ELSE o.message,
        code |-> IF o.status # 0 THEN o.status ELSE 1,
        blocked |-> "undefined"]

\* A refusal that reports an ordinary failure: code 1 instead of the sentinel.
BlockedResultAsFailure(check) ==
  [success |-> FALSE, stdout |-> "", stderr |-> "[SAFETY] Command blocked: " \o check.reason,
   code |-> 1, blocked |-> "true"]

\* the result safeRunCommand fabricates for a command the classifier denied
BlockedResult(check) ==
  [success |-> FALSE, stdout |-> "", stderr |-> "[SAFETY] Command blocked: " \o check.reason,
   code |-> -1, blocked |-> "true"]

\* `${command}` of a template literal
ToStringJS(v) == IF v.type \in {"null", "undefined"} THEN v.type ELSE v.val

\* logBlockedCommand that logs whenever the variable is set.
LogBlockedCommandWhenSet(command, reason) ==
  IF ~Falsy(debug)
  THEN <<"[SAFETY] Blocked command: \"" \o ToStringJS(command) \o "\"",
         "[SAFETY] Reason: " \o reason>>
  ELSE <<>>

\* logBlockedCommand: two console.error lines, in debug mode only:
\* process.env.DEV_HELPER_DEBUG === 'true'
LogBlockedCommand(command, reason) ==
  IF debug = JSString("true")
  THEN <<"[SAFETY] Blocked command: \"" \o ToStringJS(command) \o "\"",
         "[SAFETY] Reason: " \o reason>>
  ELSE <<>>

\* safeRunCommand without the early return of its refusal branch: the denial is
\* logged and the command is executed all the same.
SafeRunFallsThrough(c, options) ==
  LET safetyCheck == IsCommandSafe(c)
  IN  /\ classified' = TRUE
      /\ verdict' = safetyCheck
      /\ tests' = PatternTests(c)
      /\ lastIndex' = LastIndexAfterCall(c)
      /\ thrown' = ""
      /\ errlog' = IF safetyCheck.safe THEN <<>> ELSE LogBlockedCommand(c, safetyCheck.reason)
      /\ spawned' = <<ToStringJS(c)>>
      /\ spawnOptions' = <<ExecSyncOptions(options)>>
      /\ \E o \in Outcomes : outcome' = o /\ result' = ExecuteCommand(c, o)

\* safeRunCommand, as its effect on (classified, verdict, spawned, result, errlog):
\* the classifier is consulted, then the command is refused or handed to
\* _executeCommand, to which the operating system answers with some outcome
SafeRun(c, options) ==
  LET safetyCheck == IsCommandSafe(c)
  IN  /\ classified' = TRUE
      /\ tests' = PatternTests(c)
      /\ lastIndex' = LastIndexAfterCall(c)
      /\ IF IsCommandSafeThrows(c)
         THEN /\ thrown' = TypeErrorTrim
              /\ verdict' = NoVerdict
              /\ errlog' = <<>>
              /\ spawned' = <<>>
              /\ spawnOptions' = <<>>
              /\ outcome' = NoOutcome
              /\ result' = NoResult
         ELSE /\ thrown' = ""
              /\ verdict' = safetyCheck
              /\ IF ~safetyCheck.safe
                 THEN /\ errlog' = LogBlockedCommand(c, safetyCheck.reason)
                      /\ spawned' = <<>>
                      /\ spawnOptions' = <<>>
                      /\ outcome' = NoOutcome
                      /\ result' = BlockedResult(safetyCheck)
                 ELSE /\ errlog' = <<>>
                      /\ spawned' = <<c.val>>
                      /\ spawnOptions' = <<ExecSyncOptions(options)>>
                      /\ \E o \in Outcomes :
                            outcome' = o /\ result' = ExecuteCommand(c, o)

(***************************************************************************)
(* The commands and tool names the calls are made with.                   *)
(***************************************************************************)
ExecCommands ==
  {JSString(s) : s \in
     {"git --version", "java -version 2>&1",
      "git status", "  git status \n", "git config --global user.name",
      "git log -1 --format=\"%h %s\" 2>&1", "python -v",
      "npm install", "node app.js", "rm -rf /", "git status; rm -rf .", "sudo ls",
      "docker run x", "docker compose version", "which sudo", "node  --version",
      "ls", "git push", "net session", "git status;1", ""}}
  \cup {JSNull, JSUndefined, JSNumber("5")}

ToolNames ==
  {JSString(s) : s \in
     {"git", "node", "java", "docker-compose", "g++", "git; rm -rf /", "sudo", "",
      "git\n", "a b", "$(id)"}}
  \cup {JSNull, JSNumber("5")}

VersionFlags ==
  {JSString("--version"), JSString("version"), JSString("-v; ls"), JSString("--version\n"),
   JSString(""), JSUndefined}

WordHyphenClass == [neg |-> FALSE, set |-> WordChars \cup {"-"}]

\* A validator that is anchored at the start only.
NameRxPrefix == Rx(<<Bol, Plus(WordHyphenClass)>>, FALSE)

\* /^[\w-]+$/ and /^[-\w]+$/
NameRx == Rx(<<Bol, Plus(WordHyphenClass), Eol>>, FALSE)

\* !cmd || typeof cmd !== 'string' || !/^[\w-]+$/.test(cmd)
InvalidName(v) == Falsy(v) \/ v.type # "string" \/ ~RegExpTest(NameRx, v.val)

Blank ==
  /\ entry' = "none"
  /\ cmd' = JSUndefined
  /\ classified' = FALSE
  /\ verdict' = NoVerdict
  /\ spawned' = <<>>
  /\ result' = NoResult
  /\ ret' = JSUndefined
  /\ errlog' = <<>>
  /\ tests' = 0
  /\ thrown' = ""
  /\ args' = <<>>
  /\ outcome' = NoOutcome
  /\ spawnOptions' = <<>>

(***************************************************************************)
(* The entry points.                                                       *)
(***************************************************************************)
SafeRunCommand(c, options) ==
  /\ pc = "idle"
  /\ pc' = "returned"
  /\ entry' = "safeRunCommand"
  /\ args' = <<c, options>>
  /\ cmd' = c
  /\ SafeRun(c, options)
  /\ ret' = Returned(JSObject)
  /\ UNCHANGED <<platform, debug, history, runVars>>

\* @deprecated runCommand: return safeRunCommand(command, options)
RunCommand(c, options) ==
  /\ pc = "idle"
  /\ pc' = "returned"
  /\ entry' = "runCommand"
  /\ args' = <<c, options>>
  /\ cmd' = c
  /\ SafeRun(c, options)
  /\ ret' = Returned(JSObject)
  /\ UNCHANGED <<platform, debug, history, runVars>>

\* @deprecated runCommandSimple
RunCommandSimple(c) ==
  /\ pc = "idle"
  /\ pc' = "returned"
  /\ entry' = "runCommandSimple"
  /\ args' = <<c>>
  /\ cmd' = c
  /\ SafeRun(c, NoOptions)
  /\ ret' = Returned(IF result'.success THEN JSString(result'.stdout)
                     ELSE IF result'.stderr # "" THEN JSString(result'.stderr)
                     ELSE IF result'.stdout # "" THEN JSString(result'.stdout)
                     ELSE JSNull)
  /\ UNCHANGED <<platform, debug, history, runVars>>

commandExists(name) ==
  /\ pc = "idle"
  /\ pc' = "returned"
  /\ entry' = "commandExists"
  /\ args' = <<name>>
  /\ IF InvalidName(name)
     THEN /\ cmd' = name
          /\ classified' = FALSE
          /\ verdict' = NoVerdict
          /\ spawned' = <<>>
          /\ result' = NoResult
          /\ errlog' = <<>>
          /\ tests' = 0
          /\ thrown' = ""
          /\ lastIndex' = lastIndex
          /\ outcome' = NoOutcome
          /\ spawnOptions' = <<>>
          /\ ret' = JSBoolean(FALSE)
     ELSE LET checkCmd == JSString((IF platform = "win32" THEN "where " ELSE "which ")
                                   \o name.val)
          IN  /\ cmd' = checkCmd
              /\ SafeRun(checkCmd, NoOptions)
              /\ ret' = Returned(JSBoolean(result'.success /\ Len(result'.stdout) > 0))
  /\ UNCHANGED <<platform, debug, history, runVars>>

\* versionFlag = '--version' when the argument is undefined
getCommandVersion(name, flag) ==
  LET versionFlag == IF flag.type = "undefined" THEN JSString("--version") ELSE flag
  IN  /\ pc = "idle"
      /\ pc' = "returned"
      /\ entry' = "getCommandVersion"
      /\ args' = <<name, flag>>
      /\ IF InvalidName(name) \/ InvalidName(versionFlag)
         THEN /\ cmd' = name
              /\ classified' = FALSE
              /\ verdict' = NoVerdict
              /\ spawned' = <<>>
              /\ result' = NoResult
              /\ errlog' = <<>>
              /\ tests' = 0
              /\ thrown' = ""
              /\ lastIndex' = lastIndex
              /\ outcome' = NoOutcome
              /\ spawnOptions' = <<>>
              /\ ret' = JSNull
         ELSE LET cmdString == JSString(IF name.val = "java" THEN "java -version 2>&1"
                                        ELSE name.val \o " " \o versionFlag.val)
              IN  /\ cmd' = cmdString
                  /\ SafeRun(cmdString, NoOptions)
                  /\ ret' = Returned(IF result'.success \/ result'.stdout # ""
                                     THEN (IF result'.stdout # ""
                                           THEN JSString(result'.stdout)
                                           ELSE JSString(result'.stderr))
                                     ELSE JSNull)
      /\ UNCHANGED <<platform, debug, history, runVars>>

\* utils/platform.js isElevated: on Windows it runs `net session` with
\* child_process.execSync itself; elsewhere it compares process.getuid() with 0
isElevated ==
  /\ pc = "idle"
  /\ pc' = "returned"
  /\ entry' = "isElevated"
  /\ args' = <<>>
  /\ cmd' = JSString("net session")
  /\ classified' = FALSE
  /\ verdict' = NoVerdict
  /\ result' = NoResult
  /\ errlog' = <<>>
  /\ tests' = 0
  /\ thrown' = ""
  /\ IF platform = "win32"
     THEN /\ spawned' = <<"net session">>
          /\ spawnOptions' = <<[timeout |-> 0, stdio |-> "ignore", cwd |-> "process.cwd()"]>>
          /\ \E o \in Outcomes :
                outcome' = o /\ ret' = JSBoolean(o.kind = "exit" /\ o.status = 0)
     ELSE /\ spawned' = <<>>
          /\ spawnOptions' = <<>>
          /\ outcome' = NoOutcome
          /\ \E root \in BOOLEAN : ret' = JSBoolean(root)
  /\ UNCHANGED <<platform, debug, history, lastIndex, runVars>>

\* the runCommand of the unguarded runner module: execSync, no classifier
LegacyRunCommand(c) ==
  /\ pc = "idle"
  /\ pc' = "returned"
  /\ entry' = "legacyRunCommand"
  /\ args' = <<c>>
  /\ c.type = "string"
  /\ cmd' = c
  /\ classified' = FALSE
  /\ verdict' = NoVerdict
  /\ errlog' = <<>>
  /\ tests' = 0
  /\ thrown' = ""
  /\ spawned' = <<c.val>>
  /\ spawnOptions' = <<LegacyExecSyncOptions(NoOptions)>>
  /\ \E o \in Outcomes : outcome' = o /\ result' = ExecuteCommand(c, o)
  /\ ret' = JSObject
  /\ UNCHANGED <<platform, debug, history, lastIndex, runVars>>

\* the caller has used the returned value; it is discarded
Return ==
  /\ pc = "returned"
  /\ pc' = "idle"
  /\ Blank
  /\ UNCHANGED <<platform, debug, history, lastIndex, runVars>>

Init ==
  /\ platform \in Platforms
  /\ debug \in {JSString("true"), JSUndefined}
  /\ pc = "idle"
  /\ entry = "none"
  /\ cmd = JSUndefined
  /\ classified = FALSE
  /\ verdict = NoVerdict
  /\ spawned = <<>>
  /\ result = NoResult
  /\ ret = JSUndefined
  /\ errlog = <<>>
  /\ tests = 0
  /\ thrown = ""
  /\ history = NoHistory
  /\ lastIndex = InitialLastIndex
  /\ args = <<>>
  /\ outcome = NoOutcome
  /\ spawnOptions = <<>>
  /\ NoRun

Next ==
  \/ \E c \in ExecCommands, options \in CallerOptions : SafeRunCommand(c, options)
  \/ \E c \in ExecCommands, options \in CallerOptions : RunCommand(c, options)
  \/ \E c \in ExecCommands : RunCommandSimple(c)
  \/ \E name \in ToolNames : commandExists(name)
  \/ \E name \in ToolNames, flag \in VersionFlags : getCommandVersion(name, flag)
  \/ isElevated
  \/ \E c \in ExecCommands : LegacyRunCommand(c)
  \/ Return

Spec == Init /\ [][Next]_vars

\* the values of the environment variable: unset, 'true', and values that are
\* not 'true'
DebugValues == {JSUndefined, JSString("true"), JSString("TRUE"), JSString("1")}

\* calls of safeRunCommand and commandExists under each value of the variable
InitAudit ==
  /\ platform \in Platforms
  /\ debug \in DebugValues
  /\ pc = "idle"
  /\ entry = "none"
  /\ cmd = JSUndefined
  /\ classified = FALSE
  /\ verdict = NoVerdict
  /\ spawned = <<>>
  /\ result = NoResult
  /\ ret = JSUndefined
  /\ errlog = <<>>
  /\ tests = 0
  /\ thrown = ""
  /\ history = NoHistory
  /\ lastIndex = InitialLastIndex
  /\ args = <<>>
  /\ outcome = NoOutcome
  /\ spawnOptions = <<>>
  /\ NoRun

NextAudit ==
  \/ \E c \in ExecCommands : SafeRunCommand(c, NoOptions)
  \/ \E name \in ToolNames : commandExists(name)
  \/ Return

SpecAudit == InitAudit /\ [][NextAudit]_vars
(***************************************************************************)
(* The classifier alone: isCommandSafe applied to one command.  The       *)
(* commands are the documented ones, and strings built around them from   *)
(* the pieces the patterns are sensitive to.                              *)
(***************************************************************************)
MaxGap == 2

MaxTail == 2

MaxDigits == 2

\* the strings of 1..n pieces
RECURSIVE Strings(_, _)
Strings(pieces, n) ==
  IF n = 0 THEN {}
  ELSE pieces \cup {a \o b : a \in Strings(pieces, n - 1), b \in pieces}

\* SECURITY.md, Allowed Commands: Version Checks
DocumentedVersionQueries ==
  {"git --version", "node --version", "node -v", "npm --version", "npm -v",
   "python --version", "python -V", "python3 --version", "python3 -V",
   "java -version", "java --version", "javac -version", "javac --version",
   "go version", "rustc --version", "cargo --version", "dotnet --version",
   "php --version", "php -v", "composer --version", "flutter --version",
   "dart --version", "docker --version", "docker -v", "mvn --version", "mvn -v",
   "gradle --version", "gradle -v", "cmake --version", "make --version",
   "gcc --version", "g++ --version", "clang --version", "pip --version",
   "pip3 --version", "poetry --version", "pipenv --version", "yarn --version",
   "pnpm --version", "bun --version"}

\* the documented tools whose name the tool-name validator accepts
DocumentedTools ==
  {"git", "node", "npm", "python", "python3", "java", "javac", "go", "rustc", "cargo",
   "dotnet", "php", "composer", "flutter", "dart", "docker", "mvn", "gradle", "cmake",
   "make", "gcc", "clang", "pip", "pip3", "poetry", "pipenv", "yarn", "pnpm", "bun"}

\* SECURITY.md, Allowed Commands: Tool Existence
ExistenceProbes ==
  {probe \o " " \o tool : probe \in {"where", "which", "command -v"}, tool \in DocumentedTools}

\* the read-only git queries that take no 2>&1
GitConfigQueries ==
  {"git config --global user.name", "git config --global user.email",
   "git config --global init.defaultBranch", "git config --get user.name",
   "git status", "git rev-parse --git-dir"}

\* the read-only git queries the analyzer runs, each also with 2>&1
GitStatusQueries ==
  {"git status --porcelain", "git rev-parse --is-inside-work-tree",
   "git branch --show-current", "git symbolic-ref HEAD", "git diff --cached --quiet",
   "git ls-files --others --exclude-standard", "git ls-files -u", "git remote",
   "git log -1 --format=\"%h %s\"",
   "git rev-list --left-right --count HEAD...@{upstream}",
   "git diff --name-only --diff-filter=U", "git stash list",
   "git reflog -10 --format=\"%h %gd %gs\""}

DockerQueries == {"docker info", "docker ps", "docker version"}

DocumentedAllowlist ==
  DocumentedVersionQueries \cup {"java -version 2>&1"} \cup ExistenceProbes
    \cup GitConfigQueries \cup GitStatusQueries \cup {q \o " 2>&1" : q \in GitStatusQueries}
    \cup DockerQueries

\* SECURITY.md, Blocked Commands (Examples)
DangerousExamples ==
  {"npm install", "npm start", "npm run dev", "npx anything", "node app.js",
   "python app.py", "pip install package", "poetry run", "java -jar app.jar",
   "mvn spring-boot:run", "./gradlew bootRun", "docker run", "docker run x",
   "docker-compose up", "docker build", "rm -rf /", "git status; rm -rf .",
   "sudo", "sudo ls", "sudo git status", "sudo -v"}

\* runs of blanks and line breaks, as \s+ accepts them
Gaps == Strings({" ", "\n"}, MaxGap)

Interpreters == {"node", "python", "python3", "java", "php", "NODE", "Python"}

InterpreterArgs ==
  {"--version", "-v", "-V", "-version", "-version 2>&1", "--VERSION", "-vv", "--versions",
   "app.js", "-e 1", "-jar app.jar", "-m http.server"}

InterpreterCalls ==
  {tool \o gap \o arg : tool \in Interpreters, gap \in Gaps, arg \in InterpreterArgs}
    \cup Interpreters

\* the shell metacharacters, and the two digits the deny patterns look for
MetaPieces == {";", "&", "|", "$(", Backtick, ">", "<", "1", "2"}

MetaBases == {"ls", "git status ", "java -version ", "java -version 2>&1", "echo 2>&1 "}

MetaCommands ==
  {base \o tail : base \in MetaBases, tail \in Strings(MetaPieces, MaxTail)} \cup MetaBases

\* the variable parts the allow patterns accept, and some they must not
NameTokens == {"git", "rm", "sudo", "npx", "a_1", "a.b", "docker-compose", "g++", "a b", ""}

FormatTexts == {"", "%h %s", "%H%n%an", "any text at all", "$HOME", "a;1", "x\ny"}

Counts == Strings({"1", "0"}, MaxDigits) \cup {"", "x"}

VariableCommands ==
  {probe \o name : probe \in {"which ", "where ", "command -v ", "git config --get "},
                   name \in NameTokens}
    \cup {"git log -1 --format=\"" \o f \o "\"" \o e : f \in FormatTexts, e \in {"", " 2>&1"}}
    \cup {"git reflog -" \o n \o " --format=\"" \o f \o "\"" : n \in Counts, f \in FormatTexts}

OtherCommands ==
  {"", " ", "ls", "git push", "git commit -m x", "net session", "docker compose version",
   "  git status \n", "GIT STATUS", "git  status", "git status --short", "cat <&0",
   "ls 2>out", "echo a>&2", "make", "powershell -v", "cmd /c dir"}

Commands ==
  DocumentedAllowlist \cup DangerousExamples \cup InterpreterCalls \cup MetaCommands
    \cup VariableCommands \cup OtherCommands

\* values that are no strings: null, undefined, numbers, booleans, an object
NonStrings ==
  {JSNull, JSUndefined, JSNumber("5"), JSNumber("0"), JSBoolean(TRUE), JSBoolean(FALSE),
   JSObject}

ClassifierInputs == {JSString(s) : s \in Commands} \cup NonStrings

\* a call of isCommandSafe by itself
Classify ==
  /\ pc = "input"
  /\ pc' = "classified"
  /\ entry' = "isCommandSafe"
  /\ classified' = TRUE
  /\ tests' = PatternTests(cmd)
  /\ thrown' = IF IsCommandSafeThrows(cmd) THEN TypeErrorTrim ELSE ""
  /\ verdict' = IF IsCommandSafeThrows(cmd) THEN NoVerdict ELSE IsCommandSafe(cmd)
  /\ lastIndex' = LastIndexAfterCall(cmd)
  /\ UNCHANGED <<platform, debug, cmd, spawned, result, ret, errlog, history, args, outcome,
                 spawnOptions, runVars>>

InitClassify ==
  /\ platform = "linux"
  /\ debug = JSUndefined
  /\ pc = "input"
  /\ entry = "none"
  /\ cmd \in ClassifierInputs
  /\ classified = FALSE
  /\ verdict = NoVerdict
  /\ spawned = <<>>
  /\ result = NoResult
  /\ ret = JSUndefined
  /\ errlog = <<>>
  /\ tests = 0
  /\ thrown = ""
  /\ history = NoHistory
  /\ lastIndex = InitialLastIndex
  /\ args = <<>>
  /\ outcome = NoOutcome
  /\ spawnOptions = <<>>
  /\ NoRun

NextClassify == Classify

SpecClassify == InitClassify /\ [][NextClassify]_vars

(***************************************************************************)
(* The classifier called again and again, with the same and with other    *)
(* inputs in between; the verdicts are kept per input.                     *)
(***************************************************************************)
CallIsCommandSafe(c) ==
  /\ pc = "calls"
  /\ Len(history[c]) < MaxCalls
  /\ pc' = "calls"
  /\ entry' = "isCommandSafe"
  /\ cmd' = c
  /\ classified' = TRUE
  /\ tests' = PatternTests(c)
  /\ thrown' = IF IsCommandSafeThrows(c) THEN TypeErrorTrim ELSE ""
  /\ verdict' = IF IsCommandSafeThrows(c) THEN NoVerdict ELSE IsCommandSafe(c)
  /\ lastIndex' = LastIndexAfterCall(c)
  /\ history' = [history EXCEPT ![c] = Append(@, verdict')]
  /\ UNCHANGED <<platform, debug, spawned, result, ret, errlog, args, outcome, spawnOptions,
                 runVars>>

InitCalls ==
  /\ platform = "linux"
  /\ debug = JSUndefined
  /\ pc = "calls"
  /\ entry = "none"
  /\ cmd = JSUndefined
  /\ classified = FALSE
  /\ verdict = NoVerdict
  /\ spawned = <<>>
  /\ result = NoResult
  /\ ret = JSUndefined
  /\ errlog = <<>>
  /\ tests = 0
  /\ thrown = ""
  /\ history = NoHistory
  /\ lastIndex = InitialLastIndex
  /\ args = <<>>
  /\ outcome = NoOutcome
  /\ spawnOptions = <<>>
  /\ NoRun

NextCalls == \E c \in RepeatedInputs : CallIsCommandSafe(c)

SpecCalls == InitCalls /\ [][NextCalls]_vars

(***************************************************************************)
(* A run of `dev-helper setup`: the tool checks, the git configuration,    *)
(* the detectors and their checks, the summary.  A runner call is two      *)
(* steps, the spawn and the exit of the child process, and execSync keeps  *)
(* the program waiting between them.                                       *)
(***************************************************************************)
ToolChecks ==
  <<[cmd |-> "git --version", name |-> "Git", required |-> TRUE],
    [cmd |-> "node --version", name |-> "Node.js", required |-> FALSE],
    [cmd |-> "npm --version", name |-> "npm", required |-> FALSE],
    [cmd |-> "python --version", name |-> "Python", required |-> FALSE],
    [cmd |-> "java -version 2>&1", name |-> "Java", required |-> FALSE]>>

getToolInstallFix(toolName) ==
  CASE toolName = "Git" -> "Download from https://git-scm.com/downloads"
    [] toolName = "Node.js" -> "Download from https://nodejs.org/"
    [] toolName = "Python" -> "Download from https://python.org/downloads/"
    [] toolName = "Java" -> "Download from https://adoptium.net/"
    [] toolName = "Docker" -> "Download from https://docker.com/get-started"
    [] OTHER -> "Install " \o toolName

\* the detectors of the working directory's projects, in the order of detectors/index.js
Detectors == <<"nodejs", "cpp", "docker">>

\* the working directories of the runs: an empty one, a Node.js project as it is
\* cloned, one whose dependencies are installed with yarn, a C++ project with a
\* Dockerfile
Directories ==
  {{}, {"package.json"}, {"package.json", "node_modules", "yarn.lock"},
   {"CMakeLists.txt", "Dockerfile"}}

\* what git status prints in the working directories of the runs
StatusTexts == {"Unmerged paths:\n", "rebase in progress\n", "Changes not staged\n"}

\* detect(dir) of the detectors: the files one of which makes the project
ConfigFiles(detector) ==
  CASE detector = "nodejs" -> {"package.json"}
    [] detector = "cpp" ->
         {"CMakeLists.txt", "Makefile", "makefile", "meson.build", "configure",
          "configure.ac"}
    [] detector = "docker" ->
         {"Dockerfile", "docker-compose.yml", "docker-compose.yaml", "compose.yml",
          "compose.yaml"}

\* detectPackageManager with yarn for a directory without a lock file.
detectPackageManagerDefaultYarn(files) ==
  IF "bun.lockb" \in files THEN "bun"
  ELSE IF "pnpm-lock.yaml" \in files THEN "pnpm"
  ELSE IF "package-lock.json" \in files THEN "npm"
  ELSE "yarn"

\* detectPackageManager(dir) of the Node.js detector
detectPackageManager(files) ==
  IF "bun.lockb" \in files THEN "bun"
  ELSE IF "pnpm-lock.yaml" \in files THEN "pnpm"
  ELSE IF "yarn.lock" \in files THEN "yarn"
  ELSE "npm"

\* a check that asks for tools: check is commandExists(names[1]) || ..., getVersion
\* is getCommandVersion(versions[1]) || ...
ToolCheck(name, names, versions, fix) ==
  [name |-> name, kind |-> "tool", names |-> names, versions |-> versions, cmd |-> "",
   fix |-> fix, outcomes |-> {}]

\* what a check function that only reads the file system does
CheckOutcomes == {"passed", "failed", "throws"}

\* a check that reads the file system only; outcomes is what its check function
\* can do in the working directory, fix is what its fix function returns
FileCheck(name, outcomes, fix) ==
  [name |-> name, kind |-> "file", names |-> <<>>, versions |-> <<>>, cmd |-> "", fix |-> fix,
   outcomes |-> outcomes]

\* a check that hands one command to the runner and passes when it succeeds
RunCheck(name, command, fix) ==
  [name |-> name, kind |-> "run", names |-> <<>>, versions |-> <<>>, cmd |-> command,
   fix |-> fix, outcomes |-> {}]

\* getChecks() of the detectors: a check of each kind.  The Node.js check looks
\* for node_modules with directoryExists, which catches every exception, and its
\* fix function names the package manager of the analysis.
Checks(detector) ==
  CASE detector = "nodejs" ->
         <<FileCheck("Dependencies installed",
                     IF "node_modules" \in cwd.files THEN {"passed"} ELSE {"failed"},
                     detectPackageManager(cwd.files) \o " install")>>
    [] detector = "cpp" ->
         <<ToolCheck("C++ compiler installed", <<"g++", "clang++", "cl">>,
                     <<"g++", "clang++">>,
                     "Install a C++ compiler (g++, clang++, or MSVC)"),
           FileCheck("Build directory exists", CheckOutcomes,
                     "mkdir build && cd build && cmake ..")>>
    [] detector = "docker" ->
         <<RunCheck("Docker daemon running", "docker info",
                    "Start Docker Desktop or the Docker daemon")>>

\* what the operating system answers to a command of a setup run
SetupOutcomes ==
  {o \in Outcomes :
     /\ o.status <= 1
     /\ o.kind = "exit" /\ o.status = 0 => o.stderr = ""
     /\ o.kind = "exit" /\ o.status = 1 => o.stdout = "" /\ o.stderr # ""
     /\ o.kind = "timeout" => o.status = 0 /\ o.stdout = "" /\ o.stderr = ""}

\* a command that exits with status 0 and prints text
Prints(text) ==
  [kind |-> "exit", status |-> 0, stdout |-> text, stderr |-> "", hasOutput |-> TRUE,
   message |-> ""]

\* what git answers on a branch that has diverged from its upstream, and on a
\* branch that has no upstream
GitOutcomes ==
  {Prints("## main...origin/main [ahead 1, behind 2]\n"),
   [kind |-> "exit", status |-> 1, stdout |-> "",
    stderr |-> "fatal: no upstream configured for branch\n", hasOutput |-> TRUE,
    message |-> "Command failed"]}

\* what the operating system answers to the command of position s: git status
\* in the working directory of explain prints the directory's status when it
\* succeeds
RunOutcomes(s) ==
  IF program = "explain" /\ s.phase = "status"
  THEN {o \in SetupOutcomes : ~(o.kind = "exit" /\ o.status = 0)} \cup {Prints(cwd.status)}
  ELSE IF program = "explain" THEN SetupOutcomes \cup GitOutcomes
  ELSE SetupOutcomes

\* what a detector's detect / analyze / getChecks does in the working directory:
\* detect looks for the configuration files; the Node.js detector reads the
\* directory through the runner's helpers only, which catch every exception
DetectOutcomes(detector) ==
  IF ConfigFiles(detector) \cap cwd.files = {} THEN {"absent"}
  ELSE IF detector = "nodejs" THEN {"detected"}
  ELSE {"detected", "throws"}


\* the check the run is at
CheckAt(s) == Checks(detectedProjects[s.i])[s.k]

Effect(s, issues, fixes) == [site |-> s, allIssues |-> issues, allFixes |-> fixes]

Keep(s) == Effect(s, allIssues, allFixes)

\* A step that records the issue without its fix.
IssueWithoutFix(s, issue, fix) == Effect(s, Append(allIssues, issue), allFixes)

\* allIssues.push(issue); allFixes.push(fix)
Issue(s, issue, fix) == Effect(s, Append(allIssues, issue), Append(allFixes, fix))

Summary == Site("summary", 0, 0, "", 0)

Done == Site("done", 0, 0, "", 0)

\* for (const tool of toolChecks), then the git configuration
AfterTool(s) ==
  IF s.i < Len(ToolChecks) THEN Site("tools", s.i + 1, 0, "", 0) ELSE Site("gitName", 0, 0, "", 0)

\* for (const detector of detectors), then the checks of the detected projects
AfterDetector(s, projects) ==
  IF s.i < Len(Detectors) THEN Site("detect", s.i + 1, 0, "", 0)
  ELSE IF projects = <<>> THEN Summary
  ELSE Site("checks", 1, 1, "check", 1)

\* for (const checkDef of checks) inside for (const result of detectedProjects)
AfterCheck(s) ==
  IF s.k < Len(Checks(detectedProjects[s.i])) THEN Site("checks", s.i, s.k + 1, "check", 1)
  ELSE IF s.i < Len(detectedProjects) THEN Site("checks", s.i + 1, 1, "check", 1)
  ELSE Summary

\* the check passed: getVersion is called when the check defines it
CheckPassed(s) ==
  IF s.sub = "check" /\ CheckAt(s).versions # <<>>
  THEN Keep(Site("checks", s.i, s.k, "version", 1))
  ELSE Keep(AfterCheck(s))

\* the check failed: the issue is recorded when the check has a fix
CheckFailed(s) ==
  IF CheckAt(s).fix # ""
  THEN Issue(AfterCheck(s), CheckAt(s).name, CheckAt(s).fix)
  ELSE Keep(AfterCheck(s))

\* A check function whose exception leaves setup: the run ends without a summary.
CheckThrewUncaught(s) == Keep(Site("crashed", 0, 0, "", 0))

\* catch (e) { /* skip failed checks silently */ }
CheckThrew(s) == Keep(AfterCheck(s))

\* commandExists(names[j]) answered exists: the || chain stops at the first true
AfterExists(s, exists) ==
  IF exists THEN CheckPassed(s)
  ELSE IF s.j < Len(CheckAt(s).names) THEN Keep(Site("checks", s.i, s.k, "check", s.j + 1))
  ELSE CheckFailed(s)

\* getCommandVersion(versions[j]) answered: the || chain stops at the first
\* non-empty string
AfterVersion(s, version) ==
  IF version # "" \/ s.j >= Len(CheckAt(s).versions) THEN Keep(AfterCheck(s))
  ELSE Keep(Site("checks", s.i, s.k, "version", s.j + 1))

\* the tool name commandExists / getCommandVersion is asked about at s
NameAt(s) == IF s.sub = "check" THEN CheckAt(s).names[s.j] ELSE CheckAt(s).versions[s.j]

\* the position holds a call of commandExists or getCommandVersion
AsksForTool(s) == s.phase = "checks" /\ CheckAt(s).kind = "tool"

\* the guarded commandExists / getCommandVersion return before any runner call
NameRefused(s) == AsksForTool(s) /\ runner = "guarded" /\ InvalidName(JSString(NameAt(s)))

\* String.prototype.includes
Includes(s, t) == \E p \in 1..(Len(s) - Len(t) + 1) : SubSeq(s, p, p + Len(t) - 1) = t

\* the runner calls of explain: checkGitErrors and the port check of checkSystemErrors
ExplainCalls ==
  {"gitDir", "symbolicRef", "shortHead", "status", "upstream", "branch", "statusSb", "port"}

\* the port numbers a .env file of the working directory names
Ports == {"3000"}

\* the command checkSystemErrors builds from the port
PortCommand(port) ==
  IF platform = "win32" THEN "netstat -ano | findstr :" \o port ELSE "lsof -i :" \o port

\* the position holds a runner call
HasCall(s) ==
  \/ s.phase \in {"tools", "gitName", "gitEmail", "gitStatus"}
  \/ s.phase \in ExplainCalls
  \/ s.phase = "checks" /\ CheckAt(s).kind = "run"
  \/ AsksForTool(s) /\ ~NameRefused(s)

\* the command string the position hands to the runner
CommandAt(s) ==
  CASE s.phase = "tools" -> ToolChecks[s.i].cmd
    [] s.phase = "gitName" -> "git config --global user.name"
    [] s.phase = "gitEmail" -> "git config --global user.email"
    [] s.phase = "gitStatus" -> "git status"
    [] s.phase = "gitDir" -> "git rev-parse --git-dir"
    [] s.phase = "symbolicRef" -> "git symbolic-ref HEAD"
    [] s.phase = "shortHead" -> "git rev-parse --short HEAD"
    [] s.phase = "status" -> "git status"
    [] s.phase = "upstream" -> "git rev-parse --abbrev-ref --symbolic-full-name @{u}"
    [] s.phase = "branch" -> "git branch --show-current"
    [] s.phase = "statusSb" -> "git status -sb"
    [] s.phase = "port" -> PortCommand(s.sub)
    [] s.phase = "checks" /\ CheckAt(s).kind = "run" -> CheckAt(s).cmd
    [] s.phase = "checks" /\ CheckAt(s).kind = "tool" /\ s.sub = "check" ->
         (IF platform = "win32" THEN "where " ELSE "which ") \o NameAt(s)
    [] s.phase = "checks" /\ CheckAt(s).kind = "tool" /\ s.sub = "version" ->
         (IF runner = "guarded"
          THEN (IF NameAt(s) = "java" THEN "java -version 2>&1"
                ELSE NameAt(s) \o " --version")
          ELSE NameAt(s) \o " --version 2>&1")

\* the function of the runner the position calls
EntryAt(s) ==
  CASE s.phase = "checks" /\ CheckAt(s).kind = "tool" /\ s.sub = "check" -> "commandExists"
    [] s.phase = "checks" /\ CheckAt(s).kind = "tool" /\ s.sub = "version" ->
         "getCommandVersion"
    [] s.phase \in ExplainCalls ->
         IF runner = "guarded" THEN "runCommand" ELSE "legacyRunCommand"
    [] OTHER -> IF runner = "guarded" THEN "safeRunCommand" ELSE "legacyRunCommand"

\* what getCommandVersion makes of the result: "" stands for null
VersionOf(res) ==
  IF runner = "guarded"
  THEN (IF res.success \/ res.stdout # ""
        THEN (IF res.stdout # "" THEN res.stdout ELSE res.stderr)
        ELSE "")
  ELSE (IF res.success THEN res.stdout ELSE "")

\* A tool loop without the branch for a blocked result.
ToolBlockedIgnored(s, res) == FALSE

\* if (result.blocked) { info(... skipped); continue; } in the tool loop
ToolBlocked(s, res) == runner = "guarded" /\ res.blocked = "true"

\* explain found an error: displayError shows its fixes, nothing else is checked
\* A stage whose condition is displayed without ending the analysis: the
\* runtime checks follow.
FoundAndGoesOn(title, fixes) ==
  Effect(Site("runtime", 0, 0, "", 0), Append(allIssues, title), allFixes \o fixes)

\* return { title, ..., fixes }: the stage reports the condition, explain displays
\* it and evaluates no later stage
Found(title, fixes) == Effect(Summary, Append(allIssues, title), allFixes \o fixes)

\* The test for one of the two markers only.
HasConflictMarkersBothModified(status) == Includes(status, "both modified")

\* status.includes('Unmerged paths') || status.includes('both modified')
HasConflictMarkers(status) ==
  Includes(status, "Unmerged paths") \/ Includes(status, "both modified")

\* what explain does with the result of the runner call at s, up to its next call
ExplainAfterResult(s, res) ==
  CASE s.phase = "gitDir" ->
         (IF ~res.success THEN Keep(Site("projectFiles", 0, 0, "", 0))
          ELSE Keep(Site("symbolicRef", 0, 0, "", 0)))
    [] s.phase = "symbolicRef" ->
         (IF ~res.success THEN Keep(Site("shortHead", 0, 0, "", 0))
          ELSE Keep(Site("status", 0, 0, "", 0)))
    [] s.phase = "shortHead" ->
         Found("Detached HEAD State",
               <<"git checkout main", "git checkout -b new-branch-name", "git reflog">>)
    [] s.phase = "status" ->
         (IF res.success /\ HasConflictMarkers(res.stdout)
          THEN Found("Merge Conflict",
                     <<"git add .", "git commit -m \"Resolved merge conflicts\"">>)
          ELSE IF res.success /\ Includes(res.stdout, "rebase in progress")
          THEN Found("Rebase in Progress",
                     <<"git rebase --continue", "git rebase --skip", "git rebase --abort">>)
          ELSE IF /\ res.success
                  /\ \/ Includes(res.stdout, "Changes not staged")
                     \/ Includes(res.stdout, "Changes to be committed")
                  /\ runOptions.verbose
          THEN Found("Uncommitted Changes",
                     <<"git add .", "git commit -m \"Your message\"", "git stash",
                       "git checkout .">>)
          ELSE Keep(Site("upstream", 0, 0, "", 0)))
    [] s.phase = "upstream" ->
         (IF ~res.success /\ (Includes(res.stderr, "no upstream")
                               \/ Includes(res.stdout, "no upstream"))
          THEN Keep(Site("branch", 0, 0, "", 0))
          ELSE Keep(Site("statusSb", 0, 0, "", 0)))
    [] s.phase = "branch" ->
         Found("No Upstream Branch",
               <<"git push -u origin "
                 \o (IF Trim(res.stdout) # "" THEN Trim(res.stdout) ELSE "current-branch")>>)
    [] s.phase = "statusSb" ->
         (IF res.success /\ Includes(res.stdout, "ahead") /\ Includes(res.stdout, "behind")
          THEN Found("Branches Have Diverged", <<"git pull", "git pull --rebase">>)
          ELSE Keep(Site("runtime", 0, 0, "", 0)))
    [] s.phase = "port" ->
         (IF res.success /\ Trim(res.stdout) # ""
          THEN Found("Port " \o s.sub \o " Already in Use",
                     <<PortCommand(s.sub),
                       IF platform = "win32" THEN "taskkill /PID <PID> /F"
                       ELSE "kill -9 <PID>">>)
          ELSE Keep(Summary))

\* what setup does with the result of the runner call at s, up to its next call
SetupAfterResult(s, res) ==
  CASE s.phase = "tools" ->
         (IF ToolBlocked(s, res) THEN Keep(AfterTool(s))
          ELSE IF res.success THEN Keep(AfterTool(s))
          ELSE IF ToolChecks[s.i].required
          THEN Issue(AfterTool(s), ToolChecks[s.i].name \o " is not installed",
                     getToolInstallFix(ToolChecks[s.i].name))
          ELSE Keep(AfterTool(s)))
    [] s.phase = "gitName" ->
         (IF res.success /\ Trim(res.stdout) # ""
          THEN Keep(Site("gitEmail", 0, 0, "", 0))
          ELSE Issue(Site("gitEmail", 0, 0, "", 0), "Git user.name not configured",
                     "git config --global user.name \"Your Name\""))
    [] s.phase = "gitEmail" ->
         (IF res.success /\ Trim(res.stdout) # ""
          THEN Keep(Site("gitStatus", 0, 0, "", 0))
          ELSE Issue(Site("gitStatus", 0, 0, "", 0), "Git user.email not configured",
                     "git config --global user.email \"you@example.com\""))
    [] s.phase = "gitStatus" -> Keep(Site("detect", 1, 0, "", 0))
    [] s.phase = "checks" /\ CheckAt(s).kind = "run" ->
         (IF res.success THEN CheckPassed(s) ELSE CheckFailed(s))
    [] s.phase = "checks" /\ CheckAt(s).kind = "tool" /\ s.sub = "check" ->
         AfterExists(s, res.success /\ Len(res.stdout) > 0)
    [] s.phase = "checks" /\ CheckAt(s).kind = "tool" /\ s.sub = "version" ->
         AfterVersion(s, VersionOf(res))

\* what the running command does with the result of the runner call at s
AfterResult(s, res) ==
  IF program = "explain" THEN ExplainAfterResult(s, res) ELSE SetupAfterResult(s, res)

\* the program goes on from the effect e
GoOn(e) ==
  /\ site' = e.site
  /\ allIssues' = e.allIssues
  /\ allFixes' = e.allFixes

\* A spawn that returns at once, as child_process.exec does: the program goes on
\* while the child process runs.
AfterSpawnAsync == "running"

\* execSync does not return before the child process has exited
AfterSpawn == "waiting"

\* the options the runner of the run hands to execSync
RunnerOptions ==
  IF runner = "guarded" THEN ExecSyncOptions(NoOptions) ELSE LegacyExecSyncOptions(NoOptions)

\* execSync(command, options): the child process starts
Spawn(c) ==
  /\ spawned' = Append(spawned, c.val)
  /\ spawnOptions' = Append(spawnOptions, RunnerOptions)
  /\ inflight' = inflight + 1
  /\ pc' = AfterSpawn
  /\ result' = NoResult
  /\ outcome' = NoOutcome
  /\ UNCHANGED <<site, allIssues, allFixes>>

\* the next statement of the run is a runner call
AtRunnerCall == pc = "running" /\ HasCall(site)

\* the run reaches a runner call: the guarded runner classifies the command and
\* refuses it or spawns it, the unguarded runner spawns it
RunnerCall ==
  /\ AtRunnerCall
  /\ LET c == JSString(CommandAt(site))
     IN  /\ cmd' = c
         /\ entry' = EntryAt(site)
         /\ thrown' = ""
         /\ IF runner = "guarded"
            THEN /\ classified' = TRUE
                 /\ verdict' = IsCommandSafe(c)
                 /\ tests' = PatternTestsOf(c, verdict')
                 /\ lastIndex' = LastIndexAfterCall(c)
                 /\ errlog' = errlog \o (IF verdict'.safe THEN <<>>
                                         ELSE LogBlockedCommand(c, verdict'.reason))
                 /\ IF verdict'.safe
                    THEN Spawn(c)
                    ELSE /\ result' = BlockedResult(verdict')
                         /\ outcome' = NoOutcome
                         /\ pc' = "running"
                         /\ GoOn(AfterResult(site, result'))
                         /\ UNCHANGED <<spawned, spawnOptions, inflight>>
            ELSE /\ classified' = FALSE
                 /\ verdict' = NoVerdict
                 /\ Spawn(c)
                 /\ UNCHANGED <<tests, lastIndex, errlog>>
  /\ UNCHANGED <<platform, debug, history, args, ret, cwd, runOptions, runner, program,
                 detectedProjects,
                 printed>>

\* the child process exits or is killed at the timeout; execSync returns or throws,
\* and the program goes on with the result
ProcessExit ==
  /\ pc = "waiting"
  /\ inflight > 0
  /\ \E o \in RunOutcomes(site) :
        /\ outcome' = o
        /\ result' = ExecuteCommand(cmd, o)
  /\ inflight' = inflight - 1
  /\ pc' = "running"
  /\ GoOn(AfterResult(site, result'))
  /\ UNCHANGED <<platform, debug, history, args, ret, cwd, runOptions, runner, program,
                 detectedProjects,
                 printed, cmd, entry, thrown, classified, verdict, tests, lastIndex, errlog,
                 spawned, spawnOptions>>

\* commandExists / getCommandVersion with a name that fails the validation:
\* false / null, and no runner call
NameRejected ==
  /\ pc = "running"
  /\ NameRefused(site)
  /\ GoOn(IF site.sub = "check" THEN AfterExists(site, FALSE) ELSE AfterVersion(site, ""))
  /\ entry' = EntryAt(site)
  /\ cmd' = JSString(NameAt(site))
  /\ UNCHANGED <<platform, debug, history, args, ret, cwd, runOptions, runner, program,
                 detectedProjects,
                 printed, pc, thrown, classified, verdict, tests, lastIndex, errlog,
                 spawned, spawnOptions, inflight, result, outcome>>

\* detectAll, one detector: detect, analyze and getChecks inside try / catch
DetectProject ==
  /\ pc = "running"
  /\ site.phase = "detect"
  /\ \E d \in DetectOutcomes(Detectors[site.i]) :
        /\ detectedProjects' = IF d = "detected"
                               THEN Append(detectedProjects, Detectors[site.i])
                               ELSE detectedProjects
        /\ errlog' = IF d = "throws"
                     THEN Append(errlog, "Detector " \o Detectors[site.i] \o " failed:")
                     ELSE errlog
  /\ GoOn(Keep(AfterDetector(site, detectedProjects')))
  /\ UNCHANGED <<platform, debug, history, args, ret, cwd, runOptions, runner, program,
                 printed, pc, thrown,
                 classified, verdict, tests, lastIndex, spawned, spawnOptions, inflight,
                 result, outcome, cmd, entry>>

\* a check that reads the file system, inside setup's try / catch
RunFileCheck ==
  /\ pc = "running"
  /\ site.phase = "checks"
  /\ CheckAt(site).kind = "file"
  /\ \E passed \in CheckAt(site).outcomes :
        GoOn(CASE passed = "passed" -> CheckPassed(site)
               [] passed = "failed" -> CheckFailed(site)
               [] passed = "throws" -> CheckThrew(site))
  /\ UNCHANGED <<platform, debug, history, args, ret, cwd, runOptions, runner, program,
                 detectedProjects,
                 printed, pc, thrown, classified, verdict, tests, lastIndex, errlog,
                 spawned, spawnOptions, inflight, result, outcome, cmd, entry>>

\* what explain finds where it reads the working directory instead of calling
\* the runner: "none" when it finds nothing to report
projectIndicators ==
  {"package.json", "requirements.txt", "pyproject.toml", "pom.xml", "build.gradle",
   "Cargo.toml", "go.mod", "composer.json", "Gemfile", "Makefile", "CMakeLists.txt",
   "pubspec.yaml", "Dockerfile"}

\* checkRuntimeErrors: the first condition the entries of the directory show
RuntimeFinding(files) ==
  IF "package.json" \in files /\ "node_modules" \notin files THEN "missingModules"
  ELSE IF "package.json" \in files /\ {"package-lock.json", "yarn.lock"} \subseteq files
  THEN "lockFiles"
  ELSE IF /\ {"requirements.txt", "pyproject.toml"} \cap files # {}
          /\ {"venv", ".venv", "env"} \cap files = {}
  THEN "noVenv"
  ELSE "none"

FileFindings(s) ==
  CASE s.phase = "projectFiles" ->
         {IF cwd.files \cap projectIndicators # {} THEN "projectFiles" ELSE "none"}
    [] s.phase = "runtime" -> {RuntimeFinding(cwd.files)}
    [] s.phase = "system" -> {"none", "denied"} \cup Ports
    [] OTHER -> {}

\* explain reads the working directory: the files of a project outside a
\* repository, checkRuntimeErrors, and the access and .env checks of checkSystemErrors
ReadFiles ==
  /\ pc = "running"
  /\ program = "explain"
  /\ \E f \in FileFindings(site) :
        GoOn(CASE f = "projectFiles" ->
                    Found("Not a Git Repository",
                          <<"git init", "git add .", "git commit -m \"Initial commit\"">>)
               [] f = "missingModules" ->
                    Found("Node Modules Missing", <<"npm install", "yarn install">>)
               [] f = "lockFiles" ->
                    Found("Multiple Lock Files", <<"npm install  # or yarn install">>)
               [] f = "noVenv" ->
                    Found("No Virtual Environment",
                          <<"python -m venv venv", "venv\\Scripts\\activate",
                            "source venv/bin/activate", "pip install -r requirements.txt">>)
               [] f = "denied" -> Found("Permission Denied", <<"sudo chown -R $USER cwd">>)
               [] f \in Ports -> Keep(Site("port", 0, 0, f, 0))
               [] f = "none" /\ site.phase = "projectFiles" ->
                    Keep(Site("runtime", 0, 0, "", 0))
               [] f = "none" /\ site.phase = "runtime" -> Keep(Site("system", 0, 0, "", 0))
               [] f = "none" /\ site.phase = "system" -> Keep(Summary))
  /\ UNCHANGED <<platform, debug, history, args, ret, cwd, runOptions, runner, program,
                 detectedProjects,
                 printed, pc, thrown, classified, verdict, tests, lastIndex, errlog,
                 spawned, spawnOptions, inflight, result, outcome, cmd, entry>>

\* [...new Set(allFixes.filter(f => f))]: the fixes that are not empty, each once,
\* in the order of their first occurrence
RECURSIVE uniqueFixes(_)
uniqueFixes(fixes) ==
  IF fixes = <<>> THEN <<>>
  ELSE LET before == uniqueFixes(SubSeq(fixes, 1, Len(fixes) - 1))
           f == fixes[Len(fixes)]
       IN  IF f = "" \/ (\E n \in DOMAIN before : before[n] = f) THEN before
           ELSE Append(before, f)

\* step 4 of setup: one of the two summary lines, then every issue with
\* allFixes[index] under it, then the quick-fix commands
SummaryLine(issues, fixes) ==
  IF Len(issues) = 0
  THEN [ready |-> TRUE, found |-> 0, listed |-> <<>>, quick |-> <<>>]
  ELSE [ready |-> FALSE, found |-> Len(issues),
        listed |-> [index \in DOMAIN issues |->
                      [issue |-> issues[index],
                       fix |-> IF index \in DOMAIN fixes THEN fixes[index] ELSE ""]],
        quick |-> uniqueFixes(fixes)]

\* the end of explain: displayError prints the condition and its fixes, and the
\* guidance is printed when no stage has reported a condition
ErrorLines(issues, fixes) ==
  [ready |-> Len(issues) = 0, found |-> Len(issues), listed |-> <<>>, quick |-> fixes]

PrintSummary ==
  /\ pc = "running"
  /\ site = Summary
  /\ printed' = Append(printed, IF program = "setup" THEN SummaryLine(allIssues, allFixes)
                                ELSE ErrorLines(allIssues, allFixes))
  /\ site' = Done
  /\ pc' = "done"
  /\ UNCHANGED <<platform, debug, history, args, ret, cwd, runOptions, runner, program,
                 detectedProjects,
                 thrown, classified, verdict, tests, lastIndex, errlog, allIssues, allFixes,
                 spawned, spawnOptions, inflight, result, outcome, cmd, entry>>

Runners == {"guarded", "legacy"}

\* the commands of the command line that run external commands
Programs == {"setup", "explain"}

InitRun ==
  /\ platform \in Platforms
  /\ debug = JSUndefined
  /\ pc = "running"
  /\ entry = "none"
  /\ cmd = JSUndefined
  /\ classified = FALSE
  /\ verdict = NoVerdict
  /\ spawned = <<>>
  /\ result = NoResult
  /\ ret = JSUndefined
  /\ errlog = <<>>
  /\ tests = 0
  /\ thrown = ""
  /\ history = NoHistory
  /\ lastIndex = InitialLastIndex
  /\ args = <<>>
  /\ outcome = NoOutcome
  /\ spawnOptions = <<>>
  /\ runner \in Runners
  /\ program \in Programs
  /\ site = IF program = "setup" THEN Site("tools", 1, 0, "", 0)
            ELSE Site("gitDir", 0, 0, "", 0)
  /\ inflight = 0
  /\ allIssues = <<>>
  /\ allFixes = <<>>
  /\ detectedProjects = <<>>
  /\ printed = <<>>
  /\ cwd \in [files : Directories,
              status : IF program = "explain" THEN StatusTexts ELSE {"nothing to commit\n"}]
  /\ runOptions \in [verbose : IF program = "explain" THEN BOOLEAN ELSE {FALSE}]

NextRun ==
  \/ RunnerCall
  \/ ProcessExit
  \/ NameRejected
  \/ DetectProject
  \/ RunFileCheck
  \/ ReadFiles
  \/ PrintSummary

SpecRun == InitRun /\ [][NextRun]_vars

\* the program is run to its end: node executes the next statement of the
\* command, and a child process exits by itself or is killed at the timeout.
\* Weak fairness of each action; for RunnerCall it is written out with the
\* action's enabling condition, AtRunnerCall.
FairSpecRun ==
  /\ SpecRun
  /\ WF_vars(ProcessExit \/ NameRejected \/ DetectProject \/ RunFileCheck \/ ReadFiles
               \/ PrintSummary)
  /\ ([]<>~AtRunnerCall \/ []<><<RunnerCall>>_vars)

(***************************************************************************)
(* The classifier's contract.                                              *)
(***************************************************************************)
Classified == pc = "classified" /\ cmd.type = "string"

Normalized == Trim(cmd.val)

\* C4: deny precedence. A command that matches a deny pattern is classified
\* unsafe, for the dangerous-pattern reason, also when it matches an allow
\* pattern.
DenyPrecedence ==
  (Classified /\ cmd.val # "" /\ MatchesAny(DANGEROUS_COMMAND_PATTERNS, Normalized)) =>
    (~verdict.safe /\ verdict.reason = ReasonDangerous)

\* a command on both lists: the allow pattern ^node\s+--version$ and, with the
\* first blank taken as \s+, the deny pattern \bnode\s+(?!-v|--version)
OnBothLists ==
  /\ Classified
  /\ cmd.val = "node  --version"
  /\ MatchesAny(DANGEROUS_COMMAND_PATTERNS, Normalized)
  /\ MatchesAny(SAFE_COMMAND_PATTERNS, Normalized)
  /\ ~verdict.safe

\* C5: default deny. A command that matches no allow pattern is classified
\* unsafe: safe=true implies that an allow pattern matches the trimmed command.
DefaultDeny ==
  pc = "classified" =>
    (verdict.safe => (cmd.type = "string" /\ MatchesAny(SAFE_COMMAND_PATTERNS, Normalized)))

\* a command on neither list, refused for not being on the allow list
OnNeitherList ==
  /\ Classified
  /\ cmd.val = "git push"
  /\ ~MatchesAny(DANGEROUS_COMMAND_PATTERNS, Normalized)
  /\ ~MatchesAny(SAFE_COMMAND_PATTERNS, Normalized)
  /\ verdict = [safe |-> FALSE, reason |-> ReasonNotListed]

\* a metacharacter of the shell starts at position p of s
MetaAt(s, p) ==
  \/ Ch(s, p) \in {";", "&", "|", Backtick, ">", "<"}
  \/ p + 1 <= Len(s) /\ SubSeq(s, p, p + 1) = "$("

\* position p of s lies inside an occurrence of the literal 2>&1
InErrMerge(s, p) ==
  \E q \in (p - 3)..p : q >= 1 /\ q + 3 <= Len(s) /\ SubSeq(s, q, q + 3) = "2>&1"

\* C6: every command that holds a shell metacharacter outside the literal
\* 2>&1 matches a deny pattern.
MetacharactersAreDenied ==
  (Classified /\ \E p \in 1..Len(Normalized) : MetaAt(Normalized, p) /\ ~InErrMerge(Normalized, p))
    => MatchesAny(DANGEROUS_COMMAND_PATTERNS, Normalized)

\* s without its first n characters
Drop(s, n) == SubSeq(s, n + 1, Len(s))

\* the version flags of the interpreters, as the tools define them
VersionFlagsOf(tool) ==
  CASE tool = "node" -> {"--version", "-v"}
    [] tool \in {"python", "python3"} -> {"--version", "-V"}
    [] tool = "java" -> {"--version", "-version", "-version 2>&1"}
    [] tool = "php" -> {"--version", "-v"}

\* s invokes the interpreter: its name in any letter case, then white space
Invokes(s, tool) ==
  /\ Len(s) > Len(tool)
  /\ LitAt(tool, s, 1, TRUE)
  /\ Ch(s, Len(tool) + 1) \in WhiteSpace

\* C7: a command that invokes node, python, python3, java or php is classified
\* safe only if what follows the tool name is one of that tool's version flags.
InterpretersOnlyReportVersions ==
  Classified =>
    \A tool \in {"node", "python", "python3", "java", "php"} :
      (Invokes(Normalized, tool) /\ verdict.safe) =>
        TrimStart(Drop(Normalized, Len(tool))) \in VersionFlagsOf(tool)

\* lower case, every run of white space a single blank
RECURSIVE Canonical(_)
Canonical(s) ==
  IF s = "" THEN ""
  ELSE IF Ch(s, 1) \in WhiteSpace
       THEN " " \o Canonical(TrimStart(s))
       ELSE Fold(Ch(s, 1), TRUE) \o Canonical(Drop(s, 1))

\* the fixed commands: the documented ones, with the two format strings the
\* analyzer uses
FixedCommands == {Canonical(c) : c \in DocumentedAllowlist}

\* a bare name: word characters, dots and hyphens
BareName(s) == s # "" /\ \A j \in 1..Len(s) : Ch(s, j) \in WordChars \cup {".", "-"}

\* what comes before and after the one variable token of a command
VariableShapes ==
  {<<"which ", "">>, <<"where ", "">>, <<"command -v ", "">>, <<"git config --get ", "">>,
   <<"git reflog -", " --format=\"%h %gd %gs\"">>,
   <<"git reflog -", " --format=\"%h %gd %gs\" 2>&1">>}

HasShape(s, shape) ==
  LET before == shape[1]
      after == shape[2]
  IN  /\ Len(s) > Len(before) + Len(after)
      /\ SubSeq(s, 1, Len(before)) = before
      /\ SubSeq(s, Len(s) - Len(after) + 1, Len(s)) = after
      /\ BareName(SubSeq(s, Len(before) + 1, Len(s) - Len(after)))

\* C8: every command classified safe is, up to letter case and the width of
\* white space, one of the fixed commands, or a fixed command with one bare
\* name as its only variable token.
AllowlistIsClosed ==
  (Classified /\ verdict.safe) =>
    \/ Canonical(Normalized) \in FixedCommands
    \/ \E shape \in VariableShapes : HasShape(Canonical(Normalized), shape)

DangerousExamplesAreUnsafe ==
  (Classified /\ cmd.val \in DangerousExamples) => ~verdict.safe

\* the example no deny pattern matches (\b cannot hold before "./"): it is
\* refused for not being on the allow list
WrapperRefused ==
  /\ Classified
  /\ cmd.val = "./gradlew bootRun"
  /\ ~MatchesAny(DANGEROUS_COMMAND_PATTERNS, Normalized)
  /\ ~verdict.safe

(***************************************************************************)
(* The guarded executor.                                                   *)
(***************************************************************************)
\* the entry points of utils/runner.js that reach execSync through safeRunCommand
GuardedEntries ==
  {"safeRunCommand", "runCommand", "runCommandSimple", "commandExists", "getCommandVersion"}

\* the command matches at least one allow pattern and no deny pattern
AllowedByRules(c) ==
  /\ c.type = "string"
  /\ MatchesAny(SAFE_COMMAND_PATTERNS, Trim(c.val))
  /\ ~MatchesAny(DANGEROUS_COMMAND_PATTERNS, Trim(c.val))

\* C1: in every call that goes through safeRunCommand, a command reaches
\* execSync only if the classifier was consulted in that call and answered
\* safe=true for that very command, which then matches an allow pattern and no
\* deny pattern; and a result that is not blocked is returned only for such a
\* command.
SpawnOnlyIfClassifiedSafe ==
  (pc = "returned" /\ entry \in GuardedEntries) =>
    /\ \A n \in DOMAIN spawned :
         /\ classified
         /\ verdict.safe
         /\ spawned[n] = cmd.val
         /\ AllowedByRules(cmd)
    /\ (classified /\ result.blocked # "true") => (verdict.safe /\ AllowedByRules(cmd))

\* a guarded call that spawned its command, and one that was refused
SpawnedAfterApproval ==
  /\ pc = "returned"
  /\ entry = "safeRunCommand"
  /\ spawned = <<"git --version">>
  /\ verdict.safe
  /\ result.success

\* C2: whatever entry point is called, no command reaches execSync unless the
\* classifier approved it in the same call.
EverySpawnPassesTheClassifier ==
  (pc = "returned" /\ spawned # <<>>) => (classified /\ verdict.safe)

DenialReasons == {ReasonInvalid, ReasonDangerous, ReasonNotListed}

\* C3: a call whose command the classifier denies spawns nothing and returns
\* success=false, blocked=true, code=-1, an empty stdout and a stderr that
\* carries the classifier's reason; a call that executed its command returns
\* a result that is neither blocked nor has code -1.
BlockedResultShape ==
  (pc = "returned" /\ entry \in GuardedEntries /\ classified) =>
    /\ ~verdict.safe =>
         /\ spawned = <<>>
         /\ result.success = FALSE
         /\ result.blocked = "true"
         /\ result.code = -1
         /\ result.stdout = ""
         /\ verdict.reason \in DenialReasons
         /\ result.stderr = "[SAFETY] Command blocked: " \o verdict.reason
    /\ spawned # <<>> => (result.blocked # "true" /\ result.code # -1)

\* a refused call next to which executed-and-failed calls exist
RefusedCall ==
  /\ pc = "returned"
  /\ entry = "safeRunCommand"
  /\ cmd = JSString("npm install")
  /\ result.blocked = "true"
  /\ spawned = <<>>

(***************************************************************************)
(* The classifier's guard.                                                 *)
(***************************************************************************)
\* C11: for null, undefined, the empty string and every value that is no
\* string, isCommandSafe returns (it does not throw) safe=false with the
\* invalid-command reason, and it has called pattern.test not once.
InvalidInputRefused ==
  (pc = "classified" /\ (cmd.type # "string" \/ cmd.val = "")) =>
    /\ thrown = ""
    /\ ~verdict.safe
    /\ verdict.reason = ReasonInvalid
    /\ tests = 0

\* a truthy value that is no string: only the typeof test keeps trim from it
NumberRefused ==
  /\ pc = "classified"
  /\ cmd = JSNumber("5")
  /\ verdict.reason = ReasonInvalid
  /\ tests = 0
  /\ thrown = ""

\* C12: isCommandSafe is a function of its input and of the rule tables
\* alone. In every sequence of calls, with other inputs in between, all calls
\* with the same input return the same verdict and reason, and a call changes
\* neither the pattern objects of the tables nor any other state of the program.
ClassifierIsPure ==
  /\ [](\A c \in RepeatedInputs :
         \A m, n \in DOMAIN history[c] : history[c][m] = history[c][n])
  /\ [][entry' = "isCommandSafe" =>
         UNCHANGED <<lastIndex, platform, debug, spawned, result, ret, errlog>>]_vars

\* the allowed command was classified twice, the denied one in the same run
ClassifiedTwice ==
  /\ pc = "calls"
  /\ Len(history[JSString("git --version")]) = 2
  /\ Len(history[JSString("rm -rf /")]) >= 1
  /\ history[JSString("git --version")][2].safe
  /\ ~history[JSString("rm -rf /")][1].safe

(***************************************************************************)
(* The tool-name validator of commandExists and getCommandVersion.        *)
(***************************************************************************)
\* letters, digits, underscore and hyphen
NameCharacters == UpperLetters \cup LowerLetters \cup Digits \cup {"_", "-"}

\* empty, no string, or with a character outside the name characters
NotAName(v) ==
  \/ v.type # "string"
  \/ v.val = ""
  \/ \E j \in 1..Len(v.val) : Ch(v.val, j) \notin NameCharacters

\* C13: when the name is empty, no string or holds a character outside
\* letters, digits, underscore and hyphen, commandExists returns false and
\* getCommandVersion returns null, and neither calls the classifier or spawns a
\* process; getCommandVersion does the same when the flag holds such a character.
InvalidNamesSpawnNothing ==
  (/\ pc = "returned"
   /\ entry \in {"commandExists", "getCommandVersion"}
   /\ \/ NotAName(args[1])
      \/ /\ entry = "getCommandVersion"
         /\ args[2].type = "string"
         /\ NotAName(args[2]))
  => /\ ret = (IF entry = "commandExists" THEN JSBoolean(FALSE) ELSE JSNull)
     /\ ~classified
     /\ tests = 0
     /\ spawned = <<>>
     /\ thrown = ""

\* a name that begins like a tool name and goes on with a shell command
InjectionRejected ==
  /\ pc = "returned"
  /\ entry = "commandExists"
  /\ args = <<JSString("git; rm -rf /")>>
  /\ ret = JSBoolean(FALSE)
  /\ ~classified
  /\ spawned = <<>>

(***************************************************************************)
(* The result of a command that was executed.                              *)
(***************************************************************************)
\* the process could not be started, or was killed at the timeout
FailedToRun ==
  /\ pc = "returned"
  /\ entry \in GuardedEntries
  /\ spawned # <<>>
  /\ outcome.kind \in {"spawnError", "timeout"}

\* the result is one that a process that ran and exited with a nonzero status
\* also yields: same success, code and blocked
LikeAnOrdinaryFailure ==
  \E o \in Outcomes :
    /\ o.kind = "exit"
    /\ o.status # 0
    /\ ExecuteCommand(cmd, o).success = result.success
    /\ ExecuteCommand(cmd, o).code = result.code
    /\ ExecuteCommand(cmd, o).blocked = result.blocked

\* what C14 says of every such call but about stderr
FailureShape ==
  /\ thrown = ""
  /\ result.success = FALSE
  /\ result.blocked = "undefined"
  /\ result.code # 0
  /\ outcome.kind = "spawnError" => result.code = 1
  /\ LikeAnOrdinaryFailure

NormalExitResult ==
  (/\ pc = "returned"
   /\ entry \in GuardedEntries
   /\ spawned # <<>>
   /\ outcome.kind = "exit")
  => /\ result.success = (outcome.status = 0)
     /\ result.code = outcome.status
     /\ result.stdout = Trim(outcome.stdout)
     /\ result.stderr = Trim(outcome.stderr)
     /\ result.blocked = "undefined"
     /\ result.success => result.code = 0

\* the functions through which setup and explain spawn their processes
SetupAndExplainEntries == GuardedEntries \cup {"legacyRunCommand"}

\* C16: every process spawned during setup or explain is started with the
\* 10-second timeout and with piped stdin, stdout and stderr: no caller
\* overrides the timeout or turns the capture of the output off.
SpawnsAreBoundedAndCaptured ==
  (pc = "returned" /\ entry \in SetupAndExplainEntries) =>
    \A n \in DOMAIN spawnOptions :
      /\ spawnOptions[n].timeout = DefaultTimeout
      /\ spawnOptions[n].stdio = "pipe"

\* C17: at every moment of a setup or explain run at most one child process is
\* in flight, and while one is in flight the program waits in the run call: it
\* classifies and spawns the next command only after that process has exited
\* or been killed, so no two spawns overlap.
OneProcessInFlight ==
  /\ [](inflight <= 1 /\ (inflight = 1 => pc = "waiting"))
  /\ [][(spawned' # spawned \/ cmd' # cmd) => inflight = 0]_vars

\* a later command of the run is in flight, after the earlier ones have exited
LaterSpawnInFlight == inflight = 1 /\ Len(spawned) >= 3 /\ pc = "waiting"

\* the results of a command whose binary is absent: the shell reports it on
\* standard error and exits with a nonzero status, or the spawn itself fails
NotFoundResults(c) ==
  {ExecuteCommand(c, o) :
     o \in {x \in Outcomes :
              x.kind = "spawnError"
              \/ (x.kind = "exit" /\ x.status # 0 /\ x.stdout = "" /\ x.stderr # "")}}

\* the results the guarded runner fabricates for a refused command
BlockedResults == {BlockedResult([safe |-> FALSE, reason |-> r]) : r \in DenialReasons}

\* the run is about to hand a command to the guarded runner
AtGuardedCall == pc = "running" /\ runner = "guarded" /\ HasCall(site)

SetupSteps ==
  <<"tools", "gitName", "gitEmail", "gitStatus", "detect", "checks", "summary", "done">>

StepOf(s) ==
  IF \E r \in DOMAIN SetupSteps : SetupSteps[r] = s.phase
  THEN CHOOSE r \in DOMAIN SetupSteps : SetupSteps[r] = s.phase
  ELSE 0

\* setup has ended: one summary line, which agrees with allIssues
SetupFinished ==
  /\ pc = "done"
  /\ thrown = ""
  /\ Len(printed) = 1
  /\ printed[1].ready = (allIssues = <<>>)
  /\ printed[1].found = Len(allIssues)

\* the detectors whose failure detectAll has logged
FailedDetectors ==
  {Detectors[d] : d \in {x \in DOMAIN Detectors :
                            \E n \in DOMAIN errlog :
                               errlog[n] = "Detector " \o Detectors[x] \o " failed:"}}

\* C19: whatever the outcomes of its commands and whichever detectors and check
\* functions throw, setup runs its steps in order, lets no exception escape
\* and eventually ends having printed exactly one summary: 'ready' when
\* allIssues is empty, 'Found N issue(s)' with N its length otherwise. A
\* detector that throws adds no project, and the next detector still runs.
SetupAlwaysSummarises ==
  /\ <>[](program = "setup" => SetupFinished)
  /\ [](program = "setup" =>
          /\ thrown = ""
          /\ Len(printed) <= 1
          /\ printed # <<>> => pc = "done"
          /\ \A n \in DOMAIN detectedProjects : detectedProjects[n] \notin FailedDetectors)
  /\ [][program = "setup" =>
          /\ StepOf(site') >= StepOf(site)
          /\ (site.phase = "detect" /\ site.i < Len(Detectors))
               => (site'.phase = "detect" /\ site'.i = site.i + 1)]_vars

\* setup has ended with its summary after a detector threw, a process was
\* killed at the timeout and issues were recorded
SummaryAfterFailures ==
  /\ program = "setup"
  /\ SetupFinished
  /\ FailedDetectors = {"docker"}
  /\ detectedProjects = <<"cpp">>
  /\ outcome.kind = "timeout"
  /\ printed[1].found >= 2

\* C20: across a run of setup or explain no suggested remediation command is
\* executed: every command string that is spawned has been approved by the
\* classifier, and no string recorded as a fix (setup's allFixes, explain's
\* fixes) is among the spawned commands.
NoFixIsEverRun ==
  program \in Programs =>
    /\ \A n \in DOMAIN spawned, f \in DOMAIN allFixes : spawned[n] # allFixes[f]
    /\ pc = "waiting" =>
         /\ classified
         /\ verdict.safe
         /\ spawned[Len(spawned)] = cmd.val

\* the positions of the sequence that hold the value
Positions(seq, value) == {n \in DOMAIN seq : seq[n] = value}

\* setup runs where only package.json is in the working directory
FreshNodeProject == program = "setup" /\ cwd.files = {"package.json"}

\* C21: in a directory that holds only package.json, setup detects the Node.js
\* project and no other, the dependencies check fails and is recorded once, with
\* the fix npm install, the summary lists the issue with that fix and the fix
\* among the quick-fix commands, and npm install is never handed to the runner.
FreshNodeProjectNeedsNpmInstall ==
  FreshNodeProject =>
    /\ site.phase \in {"checks", "summary", "done"} => detectedProjects = <<"nodejs">>
    /\ site.phase \in {"summary", "done"} =>
          /\ Cardinality(Positions(allIssues, "Dependencies installed")) = 1
          /\ \A n \in Positions(allIssues, "Dependencies installed") :
                allFixes[n] = "npm install"
    /\ pc = "done" =>
          /\ Len(printed) = 1
          /\ \E n \in DOMAIN printed[1].listed :
                printed[1].listed[n] = [issue |-> "Dependencies installed",
                                        fix |-> "npm install"]
          /\ Positions(printed[1].quick, "npm install") # {}
    /\ Positions(spawned, "npm install") = {}
    /\ cmd # JSString("npm install")

\* a guarded setup run in such a directory has printed its summary, the tools
\* of the machine all being installed
FreshNodeProjectSummarised ==
  /\ FreshNodeProject
  /\ runner = "guarded"
  /\ pc = "done"
  /\ printed[1].quick = <<"npm install">>
  /\ Len(spawned) > 0


\* explain runs in a directory where git status prints conflict markers
ConflictInDirectory ==
  /\ program = "explain"
  /\ Includes(cwd.status, "Unmerged paths") \/ Includes(cwd.status, "both modified")

\* C22 as stated: whenever git status in the working directory prints conflict
\* markers, an explain run that found the repository (its git symbolic-ref HEAD
\* query was made) and has finished has reported Merge Conflict and nothing
\* else, whatever its other queries answered.
ConflictAlwaysReported ==
  (ConflictInDirectory /\ pc = "done" /\ Positions(spawned, "git symbolic-ref HEAD") # {})
    => allIssues = <<"Merge Conflict">>

\* C22, amended: when the git status query of explain succeeds in such a
\* directory the run reports Merge Conflict and goes to its end, and when the
\* query fails it goes on to the upstream check with nothing reported; a run that
\* reports Merge Conflict reports no other condition; and the query is only made
\* after git rev-parse --git-dir and git symbolic-ref HEAD were spawned.
ConflictReportedWhenStatusSucceeds ==
  /\ [][(ConflictInDirectory /\ site.phase = "status" /\ pc = "waiting" /\ pc' = "running")
          => IF result'.success
             THEN allIssues' = <<"Merge Conflict">> /\ site' = Summary
             ELSE allIssues' = <<>> /\ site'.phase = "upstream"]_vars
  /\ []((program = "explain" /\ Positions(allIssues, "Merge Conflict") # {})
          => /\ allIssues = <<"Merge Conflict">>
             /\ site \in {Summary, Done}
             /\ pc = "done" => printed = <<ErrorLines(allIssues, allFixes)>>)
  /\ []((program = "explain" /\ site.phase = "status")
          => /\ Positions(spawned, "git rev-parse --git-dir") # {}
             /\ Positions(spawned, "git symbolic-ref HEAD") # {}
             /\ allIssues = <<>>)

\* a guarded explain run has reported the conflict and finished
ConflictReported ==
  /\ ConflictInDirectory
  /\ runner = "guarded"
  /\ pc = "done"
  /\ allIssues = <<"Merge Conflict">>
  /\ spawned[Len(spawned)] = "git status"


\* the positions of an explain run in the order of the checks
ExplainOrder ==
  <<"gitDir", "projectFiles", "symbolicRef", "shortHead", "status", "upstream", "branch",
    "statusSb", "runtime", "system", "port", "summary", "done">>

OrderOf(s) == CHOOSE n \in DOMAIN ExplainOrder : ExplainOrder[n] = s.phase

\* the conditions the check at a position can report
TitlesAt(s) ==
  CASE s.phase = "projectFiles" -> {"Not a Git Repository"}
    [] s.phase = "shortHead" -> {"Detached HEAD State"}
    [] s.phase = "status" -> {"Merge Conflict", "Rebase in Progress", "Uncommitted Changes"}
    [] s.phase = "branch" -> {"No Upstream Branch"}
    [] s.phase = "statusSb" -> {"Branches Have Diverged"}
    [] s.phase = "runtime" ->
         {"Node Modules Missing", "Multiple Lock Files", "No Virtual Environment"}
    [] s.phase = "system" -> {"Permission Denied"}
    [] s.phase = "port" -> {"Port " \o p \o " Already in Use" : p \in Ports}
    [] OTHER -> {}

\* C23: an explain run goes through its checks in the fixed order and never
\* back; it reports at most one condition, the one of the check it has reached
\* (of the conditions read from git status the first of conflict, rebase, and
\* uncommitted changes when verbose); after a report nothing more is queried,
\* the next step prints the report; and the guidance is printed exactly when no
\* condition was reported, which implies that the directory shows no runtime
\* condition.
OneConditionInOrder ==
  /\ [](program = "explain" => Len(allIssues) <= 1 /\ Len(printed) <= 1)
  /\ [][program = "explain" => OrderOf(site') >= OrderOf(site)]_vars
  /\ [][(program = "explain" /\ allIssues' # allIssues)
          => /\ allIssues = <<>>
             /\ \E t \in TitlesAt(site) : allIssues' = <<t>>
             /\ site' = Summary
             /\ allIssues' = <<"Rebase in Progress">> => ~HasConflictMarkers(result'.stdout)
             /\ allIssues' = <<"Uncommitted Changes">>
                  => /\ ~HasConflictMarkers(result'.stdout)
                     /\ ~Includes(result'.stdout, "rebase in progress")
                     /\ runOptions.verbose]_vars
  /\ [][(program = "explain" /\ allIssues # <<>>)
          => /\ site = Summary /\ site' = Done
             /\ spawned' = spawned /\ cmd' = cmd /\ allIssues' = allIssues
             /\ printed' = <<ErrorLines(allIssues, allFixes)>>]_vars
  /\ []((program = "explain" /\ pc = "done")
          => /\ Len(printed) = 1
             /\ printed[1].ready <=> allIssues = <<>>
             /\ printed[1].ready => RuntimeFinding(cwd.files) = "none")

\* an explain run whose git stage found nothing has reported the condition of the
\* runtime stage and finished
RuntimeConditionReported ==
  /\ program = "explain"
  /\ pc = "done"
  /\ allIssues = <<"Node Modules Missing">>
  /\ Positions(spawned, "git status") # {}
  /\ ~printed[1].ready


\* the queries of explain's upstream and divergence checks
UpstreamQueries ==
  {"git rev-parse --abbrev-ref --symbolic-full-name @{u}", "git branch --show-current",
   "git status -sb"}

\* C24: the queries that explain's No Upstream Branch and Branches Have Diverged
\* checks depend on are executed when the run reaches them, not refused by the
\* classifier: once the runner was called with one of them, it was spawned.
UpstreamQueriesAreRun ==
  (program = "explain" /\ cmd.type = "string" /\ cmd.val \in UpstreamQueries)
    => Positions(spawned, cmd.val) # {}


\* the two lines logBlockedCommand writes for the command of the call
AuditRecord ==
  <<"[SAFETY] Blocked command: \"" \o ToStringJS(cmd) \o "\"",
    "[SAFETY] Reason: " \o verdict.reason>>

\* C25: a call of the guarded runner that has returned wrote the audit record
\* of its command to the error channel if the classifier refused the command and
\* DEV_HELPER_DEBUG is exactly 'true', and wrote nothing otherwise: nothing for
\* a refused command under any other value, nothing for an allowed command.
AuditRecordIffDebug ==
  (pc = "returned" /\ entry \in GuardedEntries /\ classified /\ thrown = "") =>
    errlog = IF ~verdict.safe /\ debug = JSString("true") THEN AuditRecord ELSE <<>>

\* a refused command was recorded, and one was refused without a record while
\* the variable was set to another value
RefusalRecorded ==
  /\ pc = "returned"
  /\ entry = "safeRunCommand"
  /\ cmd = JSString("npm install")
  /\ debug = JSString("true")
  /\ errlog = AuditRecord
  /\ spawned = <<>>


\* position p of s lies between two double quotes
InQuotes(s, p) == Cardinality({q \in 1..(p - 1) : Ch(s, q) = "\""}) % 2 = 1

\* the shell ends a command at position p of s: a separator or a line break
\* outside double quotes and outside the literal 2>&1
SeparatorAt(s, p) ==
  /\ Ch(s, p) \in {";", "&", "|", "\n", "\r"}
  /\ ~InQuotes(s, p)
  /\ ~InErrMerge(s, p)

\* C26: a command classified safe is one shell command: no separator and no
\* line break stands between its tokens.
SafeCommandIsOneShellCommand ==
  (Classified /\ verdict.safe) =>
    \A p \in 1..Len(Normalized) : ~SeparatorAt(Normalized, p)


\* C27: for every tool name the validator of commandExists accepts, the probe
\* it builds is classified safe and spawned, so commandExists answers false only
\* after the probe ran and did not find the tool.
ProbeOfValidNameIsRun ==
  (pc = "returned" /\ entry = "commandExists" /\ ~InvalidName(args[1])) =>
    /\ classified /\ verdict.safe
    /\ spawned = <<cmd.val>>
    /\ ret = JSBoolean(FALSE) => ~(result.success /\ Len(result.stdout) > 0)

(***************************************************************************)
(* One check definition of a detector, run once by setup's inline loop    *)
(* and once by the checker system (checkers.runChecks), in either order.  *)
(***************************************************************************)
\* the result status constants of the checker system
Status ==
  [PASS |-> "pass", FAIL |-> "fail", WARN |-> "warn", SKIP |-> "skip", MANUAL |-> "manual"]

\* a check function that throws
CheckThrows == [type |-> "throw", val |-> "Error"]

\* a check definition that has no check function
NoCheckFunction == JSUndefined

\* what a check function answers when it gets the arguments it was written for
CheckValues ==
  {JSBoolean(TRUE), JSBoolean(FALSE), JSString("skip"), JSString("manual"), JSString(""),
   JSString("not found"), CheckThrows}

\* the fix of a check definition: a text, or what its fix function returns
FixValues == {JSUndefined, JSString(""), JSString("flutter pub get")}

\* the check definitions: returns is what check(dir, analysis) answers, and a
\* check with usesAnalysis begins with  if (!analysis?.hasCompose) return 'skip'
CheckDefinitions ==
  [name : {"Dependencies installed"}, returns : CheckValues \cup {NoCheckFunction},
   usesAnalysis : BOOLEAN, fix : FixValues]

\* the analysis of the detection: the project has what the check asks for
Analysis == JSObject

\* check.check(dir, analysis)
CallCheck(check, analysis) ==
  IF check.usesAnalysis /\ check.returns # NoCheckFunction /\ analysis = JSUndefined
  THEN JSString("skip")
  ELSE check.returns

\* the result object of runSingleCheck, or what it throws
CheckResult(check, status, message, fix) ==
  [name |-> check.name, status |-> status, message |-> message, fix |-> fix, thrown |-> ""]

runSingleCheck(check, analysis) ==
  LET checkResult == CallCheck(check, analysis) IN
  CASE checkResult = NoCheckFunction ->
         [CheckResult(check, Status.PASS, "", JSNull) EXCEPT !.thrown = "TypeError"]
    [] checkResult = CheckThrows ->
         [CheckResult(check, Status.PASS, "", JSNull) EXCEPT !.thrown = "Error"]
    [] checkResult = JSString("skip") ->
         CheckResult(check, Status.SKIP, "Not applicable", JSNull)
    [] checkResult = JSString("manual") ->
         CheckResult(check, Status.MANUAL, "Manual verification required", check.fix)
    [] checkResult = JSBoolean(TRUE) ->
         CheckResult(check, Status.PASS, "", JSNull)
    [] OTHER ->
         CheckResult(check, Status.FAIL,
                     IF checkResult.type = "string" THEN checkResult.val ELSE "", check.fix)

\* runChecks for a detection with the one check: an exception is a failed check
runChecksOne(check, analysis) ==
  LET r == runSingleCheck(check, analysis) IN
  IF r.thrown # ""
  THEN <<CheckResult(check, Status.FAIL, "Check failed: " \o r.thrown, check.fix)>>
  ELSE <<r>>

\* setup's inline loop hands the check function the directory only
SetupArguments == <<"dir">>

RunChecksArguments == <<"dir", "analysis">>

\* what setup's inline loop prints for the check
SetupLine(mark, text) == [mark |-> mark, text |-> text]

\* the loop body of setup for one check definition
SetupCheck ==
  /\ program = "checks"
  /\ site.phase \in {"start", "ran"}
  /\ site.sub # "setup"
  /\ LET checkDef == args[1]
         passed == IF checkDef.returns = NoCheckFunction
                   THEN JSBoolean(TRUE)
                   ELSE CallCheck(checkDef, JSUndefined)
         fix == IF Falsy(checkDef.fix) THEN JSString("") ELSE checkDef.fix
     IN  /\ printed' = IF passed = CheckThrows THEN printed
                       ELSE IF ~Falsy(passed)
                       THEN Append(printed, SetupLine("success", checkDef.name))
                       ELSE Append(printed, SetupLine("error", checkDef.name))
         /\ allIssues' = IF passed # CheckThrows /\ Falsy(passed) /\ ~Falsy(fix)
                         THEN Append(allIssues, checkDef.name) ELSE allIssues
         /\ allFixes' = IF passed # CheckThrows /\ Falsy(passed) /\ ~Falsy(fix)
                        THEN Append(allFixes, fix.val) ELSE allFixes
  /\ args' = Append(args, [by |-> "setup", arguments |-> SetupArguments])
  /\ site' = Site(IF site.phase = "start" THEN "ran" ELSE "both", 0, 0, "setup", 0)
  /\ UNCHANGED <<platform, debug, pc, entry, cmd, classified, verdict, spawned, result, ret,
                 errlog, tests, thrown, history, lastIndex, outcome, spawnOptions, runner,
                 program, inflight, detectedProjects, cwd, runOptions>>

\* checkers.runChecks for the detection that holds the check definition
RunChecks ==
  /\ program = "checks"
  /\ site.phase \in {"start", "ran"}
  /\ site.sub # "runChecks"
  /\ entry' = "runChecks"
  /\ ret' = runChecksOne(args[1], Analysis)
  /\ args' = Append(args, [by |-> "runChecks", arguments |-> RunChecksArguments])
  /\ site' = Site(IF site.phase = "start" THEN "ran" ELSE "both", 0, 0, "runChecks", 0)
  /\ UNCHANGED <<platform, debug, pc, cmd, classified, verdict, spawned, result, errlog,
                 tests, thrown, history, lastIndex, outcome, spawnOptions, runner, program,
                 inflight, allIssues, allFixes, detectedProjects, printed, cwd, runOptions>>

InitChecks ==
  /\ platform = "linux"
  /\ debug = JSUndefined
  /\ pc = "idle"
  /\ entry = "none"
  /\ cmd = JSUndefined
  /\ classified = FALSE
  /\ verdict = NoVerdict
  /\ spawned = <<>>
  /\ result = NoResult
  /\ ret = JSUndefined
  /\ errlog = <<>>
  /\ tests = 0
  /\ thrown = ""
  /\ history = NoHistory
  /\ lastIndex = InitialLastIndex
  /\ args \in {<<check>> : check \in CheckDefinitions}
  /\ outcome = NoOutcome
  /\ spawnOptions = <<>>
  /\ runner = "guarded"
  /\ program = "checks"
  /\ site = Site("start", 0, 0, "", 0)
  /\ inflight = 0
  /\ allIssues = <<>>
  /\ allFixes = <<>>
  /\ detectedProjects = <<>>
  /\ printed = <<>>
  /\ cwd = [files |-> {}, status |-> ""]
  /\ runOptions = [verbose |-> FALSE]

NextChecks == SetupCheck \/ RunChecks

SpecChecks == InitChecks /\ [][NextChecks]_vars

\* the arguments a caller handed to the check function
ArgumentsBy(caller) ==
  LET calls == {n \in 2..Len(args) : args[n].by = caller} IN
  args[CHOOSE n \in calls : TRUE].arguments

\* C28: setup's inline check loop and runSingleCheck classify every check outcome
\* alike: setup reports the check as passed exactly when the checker system
\* yields PASS, records an issue only when it yields FAIL, and both hand the
\* check function the same arguments.
ChecksClassifiedAlike ==
  site.phase = "both" =>
    /\ (\E n \in DOMAIN printed : printed[n].mark = "success") <=> ret[1].status = Status.PASS
    /\ allIssues # <<>> => ret[1].status = Status.FAIL
    /\ ArgumentsBy("setup") = ArgumentsBy("runChecks")


(***************************************************************************)
(* The readers of git symbolic-ref HEAD: the git stage of explain, and    *)
(* the repository analyzer, whose functions are called one at a time.     *)
(***************************************************************************)
\* A test that looks for git's message only.
DetachedHeadByMessage(res) == Includes(res.stderr, "not a symbolic ref")

\* !result.success || result.stderr.includes('not a symbolic ref')
DetachedHead(res) == ~res.success \/ Includes(res.stderr, "not a symbolic ref")

checkDetachedHead ==
  /\ pc = "idle"
  /\ pc' = "returned"
  /\ entry' = "checkDetachedHead"
  /\ args' = <<JSString("dir")>>
  /\ cmd' = JSString("git symbolic-ref HEAD 2>&1")
  /\ SafeRun(cmd', CwdOptions)
  /\ ret' = Returned(JSBoolean(DetachedHead(result')))
  /\ UNCHANGED <<platform, debug, history, runVars>>

hasStagedChanges ==
  /\ pc = "idle"
  /\ pc' = "returned"
  /\ entry' = "hasStagedChanges"
  /\ args' = <<JSString("dir")>>
  /\ cmd' = JSString("git diff --cached --quiet 2>&1")
  /\ SafeRun(cmd', CwdOptions)
  /\ ret' = Returned(JSBoolean(~result'.success))
  /\ UNCHANGED <<platform, debug, history, runVars>>

InitHead == Init \/ InitRun

NextHead == NextRun \/ checkDetachedHead \/ hasStagedChanges \/ Return

SpecHead == InitHead /\ [][NextHead]_vars

\* the result of explain's query at the given stage arrives in this step
ResultArrives(phase) == program = "explain" /\ site.phase = phase /\ pc' = "running"

\* C29: when explain's git symbolic-ref HEAD query does not succeed, whatever the
\* reason, explain asks for the commit and then reports Detached HEAD State and
\* nothing else, the query being made only after git rev-parse --git-dir
\* succeeded; checkDetachedHead returns true whenever its query did not succeed,
\* and hasStagedChanges returns true whenever its query did not succeed.
DetachedHeadOnAnyFailure ==
  /\ [][ResultArrives("symbolicRef")
          => IF result'.success
             THEN site'.phase = "status" /\ allIssues' = <<>>
             ELSE site'.phase = "shortHead" /\ allIssues' = <<>>]_vars
  /\ [][ResultArrives("shortHead")
          => allIssues' = <<"Detached HEAD State">> /\ site' = Summary]_vars
  /\ [][ResultArrives("gitDir")
          => (site'.phase = "symbolicRef" <=> result'.success)]_vars
  /\ []((program = "explain" /\ site.phase \in {"symbolicRef", "shortHead"})
          => spawned[1] = "git rev-parse --git-dir")
  /\ []((pc = "returned" /\ entry = "checkDetachedHead" /\ ~result.success)
          => ret = JSBoolean(TRUE))
  /\ []((pc = "returned" /\ entry = "hasStagedChanges")
          => ret = JSBoolean(~result.success))

\* explain has reported the detached HEAD after its symbolic-ref query was
\* spawned and the query for the commit was refused
DetachedHeadReported ==
  /\ program = "explain"
  /\ runner = "guarded"
  /\ pc = "done"
  /\ allIssues = <<"Detached HEAD State">>
  /\ spawned = <<"git rev-parse --git-dir", "git symbolic-ref HEAD">>
  /\ result.blocked = "true"

\* the analyzer's query was killed at the timeout
AnalyzerQueryTimedOut ==
  /\ pc = "returned"
  /\ entry = "checkDetachedHead"
  /\ outcome.kind = "timeout"
  /\ ret = JSBoolean(TRUE)


(***************************************************************************)
(* setup alone: a run of setup, and the body of its check loop for every  *)
(* shape of check definition.                                              *)
(***************************************************************************)
InitSetup == (InitRun /\ program = "setup") \/ InitChecks

NextSetup ==
  \/ RunnerCall
  \/ ProcessExit
  \/ NameRejected
  \/ DetectProject
  \/ RunFileCheck
  \/ PrintSummary
  \/ SetupCheck

SpecSetup == InitSetup /\ [][NextSetup]_vars

\* this step pushes one issue and one fix, the fix being a text
PushesPair ==
  /\ Len(allIssues') = Len(allIssues) + 1
  /\ Len(allFixes') = Len(allFixes) + 1
  /\ SubSeq(allIssues', 1, Len(allIssues)) = allIssues
  /\ SubSeq(allFixes', 1, Len(allFixes)) = allFixes
  /\ allFixes'[Len(allFixes')] # ""

\* this step is the loop body for a check that failed and has no fix text
FailsWithoutFix ==
  /\ program = "checks"
  /\ Len(printed') = Len(printed) + 1
  /\ printed'[Len(printed')].mark = "error"
  /\ Falsy(args[1].fix)

\* C30: during setup allIssues and allFixes have the same length, every step
\* leaves them alone or pushes one issue together with its fix, so allFixes[i]
\* stays the fix recorded with allIssues[i]; the summary prints the number of
\* recorded pairs and lists each issue with its own fix; and a failed check
\* without fix text records nothing.
IssuesAndFixesPaired ==
  /\ [](Len(allIssues) = Len(allFixes))
  /\ [][(allIssues' = allIssues /\ allFixes' = allFixes) \/ PushesPair]_vars
  /\ []((program = "setup" /\ pc = "done")
          => /\ printed[1].found = Len(allIssues)
             /\ printed[1].ready <=> allIssues = <<>>
             /\ Len(printed[1].listed) = Len(allIssues)
             /\ \A index \in DOMAIN allIssues :
                  printed[1].listed[index] =
                    [issue |-> allIssues[index], fix |-> allFixes[index]])
  /\ [][FailsWithoutFix => allIssues' = allIssues /\ allFixes' = allFixes]_vars

\* a setup run has printed its summary with three issues, each with its fix
ThreePairsListed ==
  /\ program = "setup"
  /\ pc = "done"
  /\ Len(allIssues) = 3
  /\ printed[1].found = 3
  /\ printed[1].listed[3].fix = allFixes[3]
  /\ allFixes[3] # ""

\* the loop body has run for a failed check that has no fix text
FailedCheckWithoutFix ==
  /\ program = "checks"
  /\ printed = <<SetupLine("error", args[1].name)>>
  /\ Falsy(args[1].fix)
  /\ allIssues = <<>>


====
